---------------------------- MODULE Spec2Model ----------------------------
(* Text segmentation and chunk assembly of linux-speech-tools:              *)
(* GoldStandardChunker, TTSOptimizedChunker, NaturalSpeechChunker and       *)
(* SmartChunker.  A text is a sequence of characters (one-character         *)
(* strings; accented letters and inverted marks are named atoms such as     *)
(* "aacute", "iquest").  Offsets are 0-based as in Python: offset p lies    *)
(* before character s[p+1].                                                 *)
EXTENDS Integers, Sequences, FiniteSets, TLC

VARIABLES
  engine,         \* which chunker is called: "gold", "tts", "natural", "smart"
  cfg,            \* the thresholds the chunker was constructed with
  text,           \* the argument of the call
  pc,             \* position in the call
  paragraphs,     \* tts/natural/smart: the paragraphs of the normalized text
  pidx,           \* index of the paragraph being processed
  sentences,      \* the sentences of the text (gold) or of the paragraph
  idx,            \* index of the next sentence
  current_chunk,  \* the running chunk buffer
  chunks,         \* the chunks emitted so far
  long_calls,     \* gold: the calls of chunk_long_sentence, [sentence, first, last]: the
                  \* argument and the positions in chunks of the pieces returned
  remaining,      \* tts: the argument of the _split_long_sentence_tts_safe call in progress
  break_type,     \* tts: break class of the last accepted split
  splits,         \* tts: the accepted splits, [sentence, break_type, first_part, second_part]
  result,         \* the value returned
  lang,           \* protect_abbreviations: the language argument
  protected,      \* protect_abbreviations: protected_text, the text with placeholders
  protection,     \* protect_abbreviations: protection_map, [placeholder, original] pairs
  restored,       \* restore_abbreviations: the text returned
  history,        \* the earlier calls on this chunker instance, [text, result]
  cursor,         \* split_sentences: i, the offset the next piece starts at
  frames,         \* synth_retry: the stack of calls in progress
  current_session, \* GnomeReaderControl: the session record, or None
  is_paused,      \* GnomeReaderControl.is_paused
  state_file,     \* the session in reader-state.json, none when the file does not exist
  last_call,      \* the D-Bus method that ran last
  returned,       \* what it returned
  audio_queue,    \* AudioBuffer.queue
  finished_generating, \* AudioBuffer.finished_generating
  accepted,       \* the chunks add_chunk has put into the queue, in order
  yielded,        \* the chunks get_chunks has yielded, in order
  generator_pc,   \* generate_audio, the generator thread
  playback_pc,    \* get_chunks, driven by the playback loop
  text_queue,     \* SimpleParallelTTS.text_queue
  result_queue,   \* SimpleParallelTTS.result_queue
  worker,         \* the TTSWorker threads: position, item in hand, sentinels received
  taken,          \* which worker took which chunk, in the order of the takes
  synthesized,    \* the chunk indices _generate_audio_file produced a file for
  audio_files,    \* process_chunks_parallel: the results collected
  results_collected,
  main_pc,        \* process_chunks_parallel, the calling thread
  play_queue,     \* EarlyStartPlayer.audio_queue
  playing,        \* EarlyStartPlayer.playing
  stopped,        \* EarlyStartPlayer.stopped
  to_queue,       \* the audio files a for loop has still to put into audio_queue
  enqueued,       \* everything put into audio_queue, in order
  played,         \* the audio files handed to _play_audio_file, in order
  player_pc,      \* start_early_playback, the calling thread
  background_pc,  \* _background_processing, the BackgroundTTS thread
  loop_pc         \* _playback_loop, the EarlyPlayback thread

\* what a direct call of protect_abbreviations works on
masking == <<lang, protected, protection, restored>>

\* Python's None
None == "None"

\* the locals of the chunking methods
chunker_locals == <<paragraphs, pidx, sentences, idx, current_chunk, long_calls, remaining,
                    break_type, splits>>

\* say_read.split_sentences
reading == <<cursor>>
\* say_read.synth_retry
retrying == <<frames>>
\* GnomeReaderControl
gnome == <<current_session, is_paused, state_file, last_call, returned>>
\* AudioBuffer and SmartAudioStreamer.stream_buffered
buffering == <<audio_queue, finished_generating, accepted, yielded, generator_pc,
               playback_pc>>
\* SimpleParallelTTS
workers == <<text_queue, result_queue, worker, taken, synthesized, audio_files,
             results_collected, main_pc>>
\* EarlyStartPlayer
early_start == <<play_queue, playing, stopped, to_queue, enqueued, played, player_pc,
                 background_pc, loop_pc>>

\* what lies outside the chunkers
services == <<reading, retrying, gnome, buffering, workers, early_start>>

vars == <<engine, cfg, text, pc, paragraphs, pidx, sentences, idx, current_chunk, chunks,
          long_calls, remaining, break_type, splits, result, masking, history, services>>

---------------------------------------------------------------------------
(* Characters and Python string primitives                                 *)

UpperAZ == {"A","B","C","D","E","F","G","H","I","J","K","L","M","N","O","P","Q","R","S","T","U","V","W","X","Y","Z"}
LowerAZ == {"a","b","c","d","e","f","g","h","i","j","k","l","m","n","o","p","q","r","s","t","u","v","w","x","y","z"}
Digit == {"0","1","2","3","4","5","6","7","8","9"}
SpanishLower == {"aacute", "eacute", "iacute", "oacute", "uacute", "ntilde", "uuml"}
SpanishUpper == {"Aacute", "Eacute", "Iacute", "Oacute", "Uacute", "Ntilde", "Uuml"}
Inverted == {"iexcl", "iquest"}
Whitespace == {" ", "\n", "\t"}
WordChars == UpperAZ \cup LowerAZ \cup Digit \cup SpanishLower \cup SpanishUpper \cup {"_"}

UpperSeq == <<"A","B","C","D","E","F","G","H","I","J","K","L","M","N","O","P","Q","R","S","T","U","V","W","X","Y","Z","Aacute","Eacute","Iacute","Oacute","Uacute","Ntilde","Uuml">>
LowerSeq == <<"a","b","c","d","e","f","g","h","i","j","k","l","m","n","o","p","q","r","s","t","u","v","w","x","y","z","aacute","eacute","iacute","oacute","uacute","ntilde","uuml">>

\* F applied to the value of v, as LET x == v IN F(x): v is evaluated once,
\* before F
LetIn(v, F(_)) == CHOOSE r \in {F(x) : x \in {v}} : TRUE

Min(S) == CHOOSE x \in S : \A y \in S : x <= y
Max(S) == CHOOSE x \in S : \A y \in S : x >= y

\* str.lower() on one character
LowerMap == [i \in 1..Len(UpperSeq) |-> LowerSeq[i]]
UpperIndex == [c \in {UpperSeq[i] : i \in 1..Len(UpperSeq)} |-> CHOOSE i \in 1..Len(UpperSeq) : UpperSeq[i] = c]
ToLower(c) == IF c \in DOMAIN UpperIndex THEN LowerSeq[UpperIndex[c]] ELSE c

Lowered(s) == [i \in 1..Len(s) |-> ToLower(s[i])]

\* s[a:b]
Slice(s, a, b) == SubSeq(s, a + 1, b)

\* the character at offset p is in class cls
CharIn(s, p, cls) == p >= 0 /\ p < Len(s) /\ s[p + 1] \in cls
CharIs(s, p, c) == CharIn(s, p, {c})

\* [A-Z] under re.IGNORECASE also matches a-z
CharInCI(s, p, cls) == p >= 0 /\ p < Len(s) /\ (s[p + 1] \in cls \/ \E u \in cls : ToLower(u) = s[p + 1])

\* regex \b at offset p
WordBoundary(s, p) == CharIn(s, p - 1, WordChars) # CharIn(s, p, WordChars)

\* literal w at offset p (ci: re.IGNORECASE)
Lit(s, p, w, ci) ==
  /\ p >= 0
  /\ p + Len(w) <= Len(s)
  /\ \A i \in 1..Len(w) : IF ci THEN ToLower(s[p + i]) = ToLower(w[i]) ELSE s[p + i] = w[i]

\* end of the maximal run of characters of cls starting at offset p (p itself when empty)
RunEnd(s, p, cls) ==
  IF p >= Len(s) THEN p ELSE Min({q \in p..Len(s) : q = Len(s) \/ s[q + 1] \notin cls})
SpaceRunEnd(s, p) == RunEnd(s, p, Whitespace)

IsBlank(s) == \A i \in 1..Len(s) : s[i] \in Whitespace

\* str.strip()
Strip(s) ==
  IF IsBlank(s) THEN <<>>
  ELSE SubSeq(s, Min({i \in 1..Len(s) : s[i] \notin Whitespace}),
              Max({i \in 1..Len(s) : s[i] \notin Whitespace}))

\* str.lstrip()
LStrip(s) ==
  IF IsBlank(s) THEN <<>>
  ELSE SubSeq(s, Min({i \in 1..Len(s) : s[i] \notin Whitespace}), Len(s))

\* str.rfind(c, lo, hi)
Rfind(s, c, lo, hi) ==
  LetIn({p \in lo..(hi - 1) : CharIs(s, p, c)},
        LAMBDA hits : IF hits = {} THEN -1 ELSE Max(hits))

\* str.find(w) from offset p: first offset >= p where w occurs, -1 when none
Find(s, w, p) ==
  LetIn({q \in p..Len(s) : Lit(s, q, w, FALSE)},
        LAMBDA hits : IF hits = {} THEN -1 ELSE Min(hits))

\* str.replace(old, new): every non-overlapping occurrence, left to right
RECURSIVE ReplaceFrom(_, _, _, _)
ReplaceFrom(s, old, new, p) ==
  LetIn(Find(s, old, p),
        LAMBDA q : IF q = -1 \/ Len(old) = 0 THEN Slice(s, p, Len(s))
                   ELSE Slice(s, p, q) \o new \o ReplaceFrom(s, old, new, q + Len(old)))
Replace(s, old, new) == ReplaceFrom(s, old, new, 0)

\* str.replace(old, new, 1)
ReplaceFirst(s, old, new) ==
  LetIn(Find(s, old, 0),
        LAMBDA q : IF q = -1 THEN s ELSE Slice(s, 0, q) \o new \o Slice(s, q + Len(old), Len(s)))

\* str.split(): the maximal runs of non-whitespace characters
RECURSIVE WordsFrom(_, _)
WordsFrom(s, p) ==
  LetIn(SpaceRunEnd(s, p),
        LAMBDA a : IF a >= Len(s) THEN <<>>
                   ELSE LetIn(Min({q \in a..Len(s) : q = Len(s) \/ s[q + 1] \in Whitespace}),
                              LAMBDA b : <<Slice(s, a, b)>> \o WordsFrom(s, b)))
Words(s) == WordsFrom(s, 0)

\* sep.join(parts)
RECURSIVE JoinWith(_, _)
JoinWith(parts, sep) ==
  IF Len(parts) = 0 THEN <<>>
  ELSE IF Len(parts) = 1 THEN parts[1]
  ELSE parts[1] \o sep \o JoinWith(Tail(parts), sep)

\* ' '.join(s.split()): whitespace normalization
Normalize(s) == JoinWith(Words(s), <<" ">>)

\* decimal digits of n, as str(n)
RECURSIVE Decimal(_)
Decimal(n) ==
  IF n < 10 THEN <<<<"0","1","2","3","4","5","6","7","8","9">>[n + 1]>>
  ELSE Decimal(n \div 10) \o <<<<"0","1","2","3","4","5","6","7","8","9">>[(n % 10) + 1]>>

\* True when s ends with one of the characters of cls (str.endswith of a tuple)
EndsWithAny(s, cls) == Len(s) > 0 /\ s[Len(s)] \in cls

---------------------------------------------------------------------------
(* Regular-expression matching.  A match attempted at offset p is the       *)
(* sequence <<e1, ..., ek, end>> of the end offsets of its k capture groups *)
(* followed by the end of the whole match, or <<>> when the pattern does    *)
(* not match at p.  The groups of every pattern here are adjacent and the   *)
(* first one starts at p.                                                   *)

NoMatch == <<>>
MEnd(m) == m[Len(m)]

\* end offset of the first alternative of alts (in order) that matches at p
\* and after which Cont holds; -1 when there is none
FirstAltEnd(s, p, alts, ci, Cont(_)) ==
  LetIn({i \in 1..Len(alts) : Lit(s, p, alts[i], ci) /\ Cont(p + Len(alts[i]))},
        LAMBDA ok : IF ok = {} THEN -1 ELSE p + Len(alts[Min(ok)]))

---------------------------------------------------------------------------
(* GoldStandardChunker: pattern tables                                     *)

EnTitles == <<<<"D","r">>, <<"M","r">>, <<"M","r","s">>, <<"M","s">>, <<"P","r","o","f">>, <<"S","r">>, <<"J","r">>>>
EnDegrees == <<<<"P","h",".","D">>, <<"M",".","D">>, <<"B",".","A">>, <<"M",".","A">>, <<"B",".","S">>, <<"M",".","S">>>>
EnCountries == <<<<"U",".","S",".","A">>, <<"U",".","S">>, <<"U",".","K">>>>
EnLatin == <<<<"e","t","c">>, <<"v","s">>, <<"i",".","e">>, <<"e",".","g">>>>
Meridiem == <<<<"A",".","M">>, <<"P",".","M">>, <<"a",".","m">>, <<"p",".","m">>>>
Acronyms == <<<<"N","A","S","A">>, <<"F","B","I">>, <<"C","I","A">>, <<"M","I","T">>, <<"I","B","M">>, <<"C","E","O">>, <<"C","F","O">>, <<"C","T","O">>, <<"H","T","T","P">>, <<"H","T","T","P","S">>, <<"S","S","L">>, <<"T","L","S">>>>
EsTitles == <<<<"D","r">>, <<"D","r","a">>, <<"S","r">>, <<"S","r","a">>, <<"P","r","o","f">>>>
EsCountries == <<<<"E","E",".","U","U">>>>
EsLatin == <<<<"e","t","c">>, <<"p",".","e","j">>, <<"v","s">>>>
TransitionWords == <<<<"s","p","e","c","i","f","i","c","a","l","l","y">>, <<"n","a","m","e","l","y">>, <<"h","o","w","e","v","e","r">>, <<"t","h","e","r","e","f","o","r","e">>, <<"f","u","r","t","h","e","r","m","o","r","e">>>>
GoldConjunctions == <<<<"a","n","d">>, <<"b","u","t">>, <<"o","r">>, <<"s","o">>, <<"y","e","t">>, <<"y">>, <<"p","e","r","o">>, <<"o">>>>
GoldTransitions == <<<<"h","o","w","e","v","e","r">>, <<"t","h","e","r","e","f","o","r","e">>, <<"f","u","r","t","h","e","r","m","o","r","e">>, <<"n","e","v","e","r","t","h","e","l","e","s","s">>, <<"m","o","r","e","o","v","e","r">>, <<"s","i","n"," ","e","m","b","a","r","g","o">>, <<"p","o","r"," ","l","o"," ","t","a","n","t","o">>, <<"a","d","e","m","aacute","s">>>>
CommaConjunctions == <<<<"a","n","d">>, <<"b","u","t">>, <<"o","r">>, <<"s","o">>, <<"y","e","t">>>>
SpanishWords == <<<<"q","u","e">>, <<"p","a","r","a">>, <<"c","o","n">>, <<"p","o","r">>, <<"d","e","s","d","e">>, <<"h","a","s","t","a">>, <<"d","o","n","d","e">>, <<"c","u","a","n","d","o">>, <<"p","o","r","q","u","e">>, <<"a","u","n","q","u","e">>>>
EnglishWords == <<<<"t","h","e">>, <<"a","n","d">>, <<"f","o","r">>, <<"w","i","t","h">>, <<"f","r","o","m">>, <<"w","h","e","r","e">>, <<"w","h","e","n">>, <<"b","e","c","a","u","s","e">>, <<"a","l","t","h","o","u","g","h">>, <<"h","o","w","e","v","e","r">>>>
SpanishParticles == <<<<"e","l">>, <<"l","a">>, <<"l","o","s">>, <<"l","a","s">>, <<"e","s">>, <<"e","n">>, <<"d","e">>>>
EnglishParticles == <<<<"a">>, <<"a","n">>, <<"o","f">>, <<"i","n">>, <<"t","o">>, <<"i","s">>, <<"w","a","s">>, <<"w","e","r","e">>>>

SentencePunct == {".", "!", "?"}
EnCapitals == UpperAZ \cup Inverted
EsCapitals == UpperAZ \cup {"Aacute", "Eacute", "Iacute", "Oacute", "Uacute", "Ntilde", "uuml",
                            "eacute", "iacute", "oacute", "uacute", "aacute"} \cup Inverted

\* \b(w1|w2|...)\. : a listed word at a word boundary, followed by a period
AbbrevDot(s, p, alts) ==
  LetIn(FirstAltEnd(s, p, alts, FALSE, LAMBDA q : CharIs(s, q, ".")),
        LAMBDA e : IF WordBoundary(s, p) /\ e # -1 THEN <<e + 1>> ELSE NoMatch)

\* \b(Ph\.D|M\.D|B\.A|M\.A|B\.S|M\.S)\.?
DegreeMatch(s, p) ==
  LetIn(FirstAltEnd(s, p, EnDegrees, FALSE, LAMBDA q : TRUE),
        LAMBDA e : IF WordBoundary(s, p) /\ e # -1
                   THEN (IF CharIs(s, e, ".") THEN <<e + 1>> ELSE <<e>>)
                   ELSE NoMatch)

\* \b(U\.S\.A|U\.S|U\.K)\.(?!\s*$)
CountryMatch(s, p) ==
  LetIn(FirstAltEnd(s, p, EnCountries, FALSE,
                    LAMBDA q : CharIs(s, q, ".") /\ SpaceRunEnd(s, q + 1) < Len(s)),
        LAMBDA e : IF WordBoundary(s, p) /\ e # -1 THEN <<e + 1>> ELSE NoMatch)

\* \b[0-9]+:[0-9]+ (A\.M|P\.M|a\.m|p\.m) up to the meridiem; -1 when absent
TimeEnd(s, p) ==
  LetIn(RunEnd(s, p, Digit),
        LAMBDA a : LetIn(RunEnd(s, a + 1, Digit),
        LAMBDA b : IF WordBoundary(s, p) /\ a > p /\ CharIs(s, a, ":") /\ b > a + 1
                      /\ CharIs(s, b, " ")
                   THEN FirstAltEnd(s, b + 1, Meridiem, FALSE, LAMBDA q : TRUE)
                   ELSE -1))

\* ...(?=\s+[A-Z]) : English, protected only when a capital follows
EnTimeMatch(s, p) ==
  LetIn(TimeEnd(s, p),
        LAMBDA e : IF e # -1 /\ SpaceRunEnd(s, e) > e /\ CharIn(s, SpaceRunEnd(s, e), UpperAZ)
                   THEN <<e>> ELSE NoMatch)

\* ...\. : Spanish
EsTimeMatch(s, p) ==
  LetIn(TimeEnd(s, p),
        LAMBDA e : IF e # -1 /\ CharIs(s, e, ".") THEN <<e + 1>> ELSE NoMatch)

\* \b(NASA|FBI|...)\b
AcronymMatch(s, p) ==
  LetIn(FirstAltEnd(s, p, Acronyms, FALSE, LAMBDA q : WordBoundary(s, q)),
        LAMBDA e : IF WordBoundary(s, p) /\ e # -1 THEN <<e>> ELSE NoMatch)

\* \b(EE\.UU)\b\.?
EsCountryMatch(s, p) ==
  LetIn(FirstAltEnd(s, p, EsCountries, FALSE, LAMBDA q : WordBoundary(s, q)),
        LAMBDA e : IF WordBoundary(s, p) /\ e # -1
                   THEN (IF CharIs(s, e, ".") THEN <<e + 1>> ELSE <<e>>)
                   ELSE NoMatch)

\* self.abbreviations[language][i], i counted from 0
abbreviations(language, i, s, p) ==
  IF language = "english"
  THEN CASE i = 0 -> AbbrevDot(s, p, EnTitles)
         [] i = 1 -> DegreeMatch(s, p)
         [] i = 2 -> CountryMatch(s, p)
         [] i = 3 -> AbbrevDot(s, p, EnLatin)
         [] i = 4 -> EnTimeMatch(s, p)
         [] OTHER -> AcronymMatch(s, p)
  ELSE CASE i = 0 -> AbbrevDot(s, p, EsTitles)
         [] i = 1 -> EsCountryMatch(s, p)
         [] i = 2 -> AbbrevDot(s, p, EsLatin)
         [] i = 3 -> EsTimeMatch(s, p)
         [] OTHER -> AcronymMatch(s, p)

NumAbbreviations(language) == IF language = "english" THEN 6 ELSE 5

\* self.sentence_endings[language]: ([.!?]+)(\s+)(?=[A-Z...]|$)
sentence_endings(language, s, p) ==
  LetIn(RunEnd(s, p, SentencePunct),
        LAMBDA q : LetIn(SpaceRunEnd(s, q),
        LAMBDA r : IF q > p /\ r > q
                      /\ (r = Len(s)
                          \/ CharIn(s, r, IF language = "english" THEN EnCapitals ELSE EsCapitals))
                   THEN <<q, r, r>> ELSE NoMatch))

\* self.punctuation_breaks[0]: (\([^)]*\))(\s+)
ParentheticalBreak(s, p) ==
  LetIn(Find(s, <<")">>, p),
        LAMBDA q : LetIn(SpaceRunEnd(s, q + 1),
        LAMBDA r : IF CharIs(s, p, "(") /\ q # -1 /\ r > q + 1 THEN <<q + 1, r, r>> ELSE NoMatch))

\* self.punctuation_breaks[1]: (!)(\s+)(?=[A-Z...]) with re.IGNORECASE
ExclamationBreak(s, p) ==
  LetIn(SpaceRunEnd(s, p + 1),
        LAMBDA r : IF CharIs(s, p, "!") /\ r > p + 1
                      /\ (CharInCI(s, r, UpperAZ) \/ CharIn(s, r, Inverted))
                   THEN <<p + 1, r, r>> ELSE NoMatch)

\* self.punctuation_breaks[2]: (;)(\s+)(specifically|namely|however|therefore|furthermore)
SemicolonTransitionBreak(s, p) ==
  LetIn(SpaceRunEnd(s, p + 1),
        LAMBDA r : LetIn(FirstAltEnd(s, r, TransitionWords, TRUE, LAMBDA q : TRUE),
        LAMBDA e : IF CharIs(s, p, ";") /\ r > p + 1 /\ e # -1
                   THEN <<p + 1, r, e, e>> ELSE NoMatch))

punctuation_breaks(i, s, p) ==
  CASE i = 0 -> ParentheticalBreak(s, p)
    [] i = 1 -> ExclamationBreak(s, p)
    [] OTHER -> SemicolonTransitionBreak(s, p)

\* \s*,?\s+ after offset e: its end, -1 when it does not match
OptCommaSpaceEnd(s, e) ==
  LetIn(SpaceRunEnd(s, e),
        LAMBDA a : IF CharIs(s, a, ",") /\ SpaceRunEnd(s, a + 1) > a + 1
                   THEN SpaceRunEnd(s, a + 1)
                   ELSE IF a > e THEN a
                   ELSE -1)

\* the tail after offset x, \s+ or (comma) \s*,?\s+: its end, -1 when it does not match
TailEnd(s, x, comma) ==
  IF comma THEN OptCommaSpaceEnd(s, x)
  ELSE IF SpaceRunEnd(s, x) > x THEN SpaceRunEnd(s, x) ELSE -1

\* (\s+)(w1|w2|...)(tail) with re.IGNORECASE, tail \s+ or \s*,?\s+
SpacedWordMatch(s, p, alts, comma) ==
  LetIn(SpaceRunEnd(s, p),
        LAMBDA q : LetIn(FirstAltEnd(s, q, alts, TRUE, LAMBDA x : TailEnd(s, x, comma) # -1),
        LAMBDA e : IF q > p /\ e # -1
                   THEN LetIn(TailEnd(s, e, comma), LAMBDA t : <<q, e, t, t>>)
                   ELSE NoMatch))

\* (,)(\s+)(?=\w)
CommaListBreak(s, p) ==
  LetIn(SpaceRunEnd(s, p + 1),
        LAMBDA r : IF CharIs(s, p, ",") /\ r > p + 1 /\ CharIn(s, r, WordChars)
                   THEN <<p + 1, r, r>> ELSE NoMatch)

\* (;)(\s+)
SemicolonBreak(s, p) ==
  LetIn(SpaceRunEnd(s, p + 1),
        LAMBDA r : IF CharIs(s, p, ";") /\ r > p + 1 THEN <<p + 1, r, r>> ELSE NoMatch)

\* self.natural_breaks[priority]
natural_breaks(priority, s, p) ==
  CASE priority = 0 -> SpacedWordMatch(s, p, GoldConjunctions, FALSE)
    [] priority = 1 -> SpacedWordMatch(s, p, GoldTransitions, TRUE)
    [] priority = 2 -> CommaListBreak(s, p)
    [] OTHER -> SemicolonBreak(s, p)

\* comma_conjunction_pattern: (,)(\s+)(and|but|or|so|yet)\s+ with re.IGNORECASE
comma_conjunction_pattern(s, p) ==
  LetIn(SpaceRunEnd(s, p + 1),
        LAMBDA r : LetIn(FirstAltEnd(s, r, CommaConjunctions, TRUE,
                                     LAMBDA x : SpaceRunEnd(s, x) > x),
        LAMBDA e : IF CharIs(s, p, ",") /\ r > p + 1 /\ e # -1
                   THEN <<p + 1, r, e, SpaceRunEnd(s, e)>> ELSE NoMatch))

\* \b(w1|w2|...)\b
WholeWordMatch(s, p, alts) ==
  LetIn(FirstAltEnd(s, p, alts, FALSE, LAMBDA q : WordBoundary(s, q)),
        LAMBDA e : IF WordBoundary(s, p) /\ e # -1 THEN <<e>> ELSE NoMatch)

---------------------------------------------------------------------------
(* TTSOptimizedChunker, NaturalSpeechChunker, SmartChunker: pattern tables *)

TtsTitles == <<<<"M","r">>, <<"M","r","s">>, <<"M","s">>, <<"D","r">>, <<"P","r","o","f">>, <<"S","r">>, <<"J","r">>>>
TtsLatin == <<<<"e","t","c">>, <<"v","s">>, <<"e",".","g">>, <<"i",".","e">>>>
TtsCountries == <<<<"U",".","S",".">>, <<"U",".","K",".">>, <<"P","h",".","D">>>>
TtsConjunctions == <<<<"a","n","d">>, <<"b","u","t">>, <<"o","r">>, <<"h","o","w","e","v","e","r">>, <<"t","h","e","r","e","f","o","r","e">>, <<"m","o","r","e","o","v","e","r">>>>
TtsRelative == <<<<"w","h","i","c","h">>>>
NaturalCoordinating == <<<<"a","n","d">>, <<"b","u","t">>, <<"o","r">>, <<"n","o","r">>, <<"f","o","r">>, <<"s","o">>, <<"y","e","t">>>>
NaturalSubordinating == <<<<"b","e","c","a","u","s","e">>, <<"s","i","n","c","e">>, <<"a","l","t","h","o","u","g","h">>, <<"t","h","o","u","g","h">>, <<"w","h","i","l","e">>, <<"w","h","e","r","e","a","s">>, <<"i","f">>, <<"u","n","l","e","s","s">>, <<"u","n","t","i","l">>, <<"w","h","e","n">>, <<"w","h","e","r","e">>, <<"a","f","t","e","r">>, <<"b","e","f","o","r","e">>>>
NaturalTransition == <<<<"h","o","w","e","v","e","r">>, <<"t","h","e","r","e","f","o","r","e">>, <<"m","o","r","e","o","v","e","r">>, <<"f","u","r","t","h","e","r","m","o","r","e">>, <<"n","e","v","e","r","t","h","e","l","e","s","s">>, <<"c","o","n","s","e","q","u","e","n","t","l","y">>, <<"m","e","a","n","w","h","i","l","e">>, <<"t","h","u","s">>, <<"h","e","n","c","e">>>>
NaturalPrepositional == <<<<"i","n"," ","a","d","d","i","t","i","o","n">>, <<"o","n"," ","t","h","e"," ","o","t","h","e","r"," ","h","a","n","d">>, <<"f","o","r"," ","e","x","a","m","p","l","e">>, <<"f","o","r"," ","i","n","s","t","a","n","c","e">>, <<"i","n"," ","c","o","n","t","r","a","s","t">>, <<"a","s"," ","a"," ","r","e","s","u","l","t">>>>
NaturalRelative == <<<<"w","h","i","c","h">>, <<"t","h","a","t">>, <<"w","h","o">>, <<"w","h","o","m">>, <<"w","h","o","s","e">>, <<"w","h","e","r","e">>, <<"w","h","e","n">>>>
SmartBreakPoints == <<<<","," ">>, <<";"," ">>, <<" ","a","n","d"," ">>, <<" ","b","u","t"," ">>, <<" ","o","r"," ">>, <<" ","b","e","c","a","u","s","e"," ">>, <<" ","a","l","t","h","o","u","g","h"," ">>>>

\* X+\s+ : a run of characters of cls followed by whitespace
RunThenSpace(s, p, cls) ==
  LetIn(RunEnd(s, p, cls),
        LAMBDA q : LetIn(SpaceRunEnd(s, q),
        LAMBDA r : IF q > p /\ r > q THEN <<r>> ELSE NoMatch))

\* c\s+ : one character c followed by whitespace
CharThenSpace(s, p, c) ==
  LetIn(SpaceRunEnd(s, p + 1),
        LAMBDA r : IF CharIs(s, p, c) /\ r > p + 1 THEN <<r>> ELSE NoMatch)

\* ([.!?])\s+ : TTSOptimizedChunker.sentence_endings
TtsSentenceEnding(s, p) ==
  LetIn(SpaceRunEnd(s, p + 1),
        LAMBDA r : IF CharIn(s, p, SentencePunct) /\ r > p + 1 THEN <<p + 1, r>> ELSE NoMatch)

\* \n\s*\n : paragraph_breaks (the match ends after the last newline of the whitespace run)
ParagraphBreak(s, p) ==
  LetIn({q \in (p + 1)..(SpaceRunEnd(s, p + 1) - 1) : CharIs(s, q, "\n")},
        LAMBDA nl : IF CharIs(s, p, "\n") /\ nl # {} THEN <<Max(nl) + 1>> ELSE NoMatch)

\* (w1|w2|...)\.\s+
AbbrevDotSpace(s, p, alts, ci) ==
  LetIn(FirstAltEnd(s, p, alts, ci,
                    LAMBDA q : CharIs(s, q, ".") /\ SpaceRunEnd(s, q + 1) > q + 1),
        LAMBDA e : IF e # -1 THEN <<e, SpaceRunEnd(s, e + 1)>> ELSE NoMatch)

\* \d+\.\d+ : end of the number, -1 when absent
DecimalEnd(s, p) ==
  LetIn(RunEnd(s, p, Digit),
        LAMBDA a : LetIn(RunEnd(s, a + 1, Digit),
        LAMBDA b : IF a > p /\ CharIs(s, a, ".") /\ b > a + 1 THEN b ELSE -1))

\* \b\d+\.\d+\s+
TtsDecimal(s, p) ==
  LetIn(DecimalEnd(s, p),
        LAMBDA b : IF WordBoundary(s, p) /\ b # -1 /\ SpaceRunEnd(s, b) > b
                   THEN <<SpaceRunEnd(s, b)>> ELSE NoMatch)

\* \d+\.\d+ : unanchored, so a shorter leading run is tried by the scan
NaturalDecimal(s, p) ==
  LetIn(DecimalEnd(s, p), LAMBDA b : IF b # -1 THEN <<b>> ELSE NoMatch)

\* [A-Z]\.\s*[A-Z]\.
Initials(s, p) ==
  LetIn(SpaceRunEnd(s, p + 2),
        LAMBDA r : IF CharIn(s, p, UpperAZ) /\ CharIs(s, p + 1, ".")
                      /\ CharIn(s, r, UpperAZ) /\ CharIs(s, r + 1, ".")
                   THEN <<r + 2>> ELSE NoMatch)

\* self.protected_patterns[i] of TTSOptimizedChunker (re.IGNORECASE on the first three)
protected_patterns(i, s, p) ==
  CASE i = 0 -> AbbrevDotSpace(s, p, TtsTitles, TRUE)
    [] i = 1 -> AbbrevDotSpace(s, p, TtsLatin, TRUE)
    [] i = 2 -> AbbrevDotSpace(s, p, TtsCountries, TRUE)
    [] OTHER -> TtsDecimal(s, p)

\* self.no_break_patterns[i] of NaturalSpeechChunker
no_break_patterns(i, s, p) ==
  CASE i = 0 -> AbbrevDotSpace(s, p, TtsTitles, FALSE)
    [] i = 1 -> NaturalDecimal(s, p)
    [] i = 2 -> Initials(s, p)
    [] i = 3 -> AbbrevDotSpace(s, p, TtsLatin, FALSE)
    [] OTHER -> AbbrevDotSpace(s, p, TtsCountries, FALSE)

\* ,\s+(w1|w2|...)\s+ with re.IGNORECASE
CommaWordMatch(s, p, alts) ==
  LetIn(SpaceRunEnd(s, p + 1),
        LAMBDA r : LetIn(FirstAltEnd(s, r, alts, TRUE, LAMBDA x : SpaceRunEnd(s, x) > x),
        LAMBDA e : IF CharIs(s, p, ",") /\ r > p + 1 /\ e # -1
                   THEN <<SpaceRunEnd(s, e)>> ELSE NoMatch))

\* (X)(Y) : a character of first, then one of second (neg: one not of second)
ClassPair(s, p, first, second, neg) ==
  IF CharIn(s, p, first) /\ p + 1 < Len(s) /\ (CharIn(s, p + 1, second) # neg)
  THEN <<p + 1, p + 2, p + 2>> ELSE NoMatch

\* ([.!?])(\s+)([A-Z])
PunctSpaceCapital(s, p) ==
  LetIn(SpaceRunEnd(s, p + 1),
        LAMBDA r : IF CharIn(s, p, SentencePunct) /\ r > p + 1 /\ CharIn(s, r, UpperAZ)
                   THEN <<p + 1, r, r + 1, r + 1>> ELSE NoMatch)

\* X+ : a run of characters of cls
RunMatch(s, p, cls) ==
  LetIn(RunEnd(s, p, cls), LAMBDA q : IF q > p THEN <<q>> ELSE NoMatch)

\* \n[ \t]*\n
BlankLine(s, p) ==
  LetIn(RunEnd(s, p + 1, {" ", "\t"}),
        LAMBDA r : IF CharIs(s, p, "\n") /\ CharIs(s, r, "\n") THEN <<r + 1>> ELSE NoMatch)

\* break_patterns[i] of _split_long_sentence_tts_safe
break_patterns(i, s, p) ==
  CASE i = 0 -> CharThenSpace(s, p, ";")
    [] i = 1 -> CommaWordMatch(s, p, TtsConjunctions)
    [] i = 2 -> CommaWordMatch(s, p, TtsRelative)
    [] OTHER -> CharThenSpace(s, p, ",")

BreakTypeName(i) ==
  CASE i = 0 -> "semicolon" [] i = 1 -> "conjunction" [] i = 2 -> "relative clause" [] OTHER -> "comma"

\* break_attempts[i] of _split_long_sentence_naturally: medium_breaks, the five
\* natural_breaks, weak_breaks
break_attempts(i, s, p) ==
  CASE i = 0 -> RunThenSpace(s, p, {";", ":"})
    [] i = 1 -> SpacedWordMatch(s, p, NaturalCoordinating, FALSE)
    [] i = 2 -> SpacedWordMatch(s, p, NaturalSubordinating, FALSE)
    [] i = 3 -> SpacedWordMatch(s, p, NaturalTransition, TRUE)
    [] i = 4 -> SpacedWordMatch(s, p, NaturalPrepositional, TRUE)
    [] i = 5 -> SpacedWordMatch(s, p, NaturalRelative, FALSE)
    [] OTHER -> RunThenSpace(s, p, {","})

---------------------------------------------------------------------------
(* re.finditer, re.split, re.findall over the pattern tables.  A pattern is *)
(* named by a tuple <<table, ...>>.                                         *)

MatchAt(pat, s, p) ==
  CASE pat[1] = "abbreviations" -> abbreviations(pat[2], pat[3], s, p)
    [] pat[1] = "sentence_endings" -> sentence_endings(pat[2], s, p)
    [] pat[1] = "punctuation_breaks" -> punctuation_breaks(pat[2], s, p)
    [] pat[1] = "natural_breaks" -> natural_breaks(pat[2], s, p)
    [] pat[1] = "comma_conjunction" -> comma_conjunction_pattern(s, p)
    [] pat[1] = "whole_word" -> WholeWordMatch(s, p, pat[2])
    [] pat[1] = "tts_sentence_endings" -> TtsSentenceEnding(s, p)
    [] pat[1] = "paragraph_breaks" -> ParagraphBreak(s, p)
    [] pat[1] = "protected_patterns" -> protected_patterns(pat[2], s, p)
    [] pat[1] = "no_break_patterns" -> no_break_patterns(pat[2], s, p)
    [] pat[1] = "break_patterns" -> break_patterns(pat[2], s, p)
    [] pat[1] = "break_attempts" -> break_attempts(pat[2], s, p)
    [] pat[1] = "class_pair" -> ClassPair(s, p, pat[2], pat[3], pat[4])
    [] pat[1] = "punct_space_capital" -> PunctSpaceCapital(s, p)
    [] pat[1] = "run" -> RunMatch(s, p, pat[2])
    [] pat[1] = "blank_line" -> BlankLine(s, p)
    [] OTHER -> RunThenSpace(s, p, SentencePunct)   \* "strong_breaks": [.!?]+\s+

\* re.finditer(pat, s): the non-overlapping matches, leftmost first, as
\* records [start, g (group ends), end]; at[q] is the match attempted at
\* offset q and p the offset the scan has reached
RECURSIVE FindIterFrom(_, _)
FindIterFrom(at, p) ==
  LetIn({q \in DOMAIN at : q >= p /\ at[q] # NoMatch},
        LAMBDA hits :
          IF hits = {} THEN <<>>
          ELSE LetIn(Min(hits),
                     LAMBDA q : <<[start |-> q, g |-> SubSeq(at[q], 1, Len(at[q]) - 1),
                                   end |-> MEnd(at[q])]>>
                                \o FindIterFrom(at, MEnd(at[q]))))
FindIter(pat, s) == FindIterFrom([q \in 0..(Len(s) - 1) |-> MatchAt(pat, s, q)], 0)

\* pattern.search(s) is not None
Search(pat, s) == \E p \in 0..(Len(s) - 1) : MatchAt(pat, s, p) # NoMatch

\* match.group(0), match.group(1)
Group0(s, m) == Slice(s, m.start, m.end)
Group1(s, m) == Slice(s, m.start, m.g[1])

\* the capture groups of one match, in order
GroupTexts(s, m) ==
  [k \in 1..Len(m.g) |-> Slice(s, IF k = 1 THEN m.start ELSE m.g[k - 1], m.g[k])]

\* re.split(pat, s): text, groups of match 1, text, groups of match 2, ..., text
RECURSIVE SplitParts(_, _, _)
SplitParts(s, ms, from) ==
  IF Len(ms) = 0 THEN <<Slice(s, from, Len(s))>>
  ELSE <<Slice(s, from, ms[1].start)>> \o GroupTexts(s, ms[1])
       \o SplitParts(s, Tail(ms), ms[1].end)
ReSplit(pat, s) == SplitParts(s, FindIter(pat, s), 0)

\* re.findall(pat, s) for a pattern without groups
ReFindAll(pat, s) ==
  LetIn(FindIter(pat, s), LAMBDA ms : [k \in 1..Len(ms) |-> Group0(s, ms[k])])

\* match.expand(repl): "\\1", "\\2", "\\3" in repl stand for the groups of the match
Expand(groups, repl) ==
  JoinWith([k \in 1..Len(repl) |->
              CASE repl[k] = "\\1" -> groups[1]
                [] repl[k] = "\\2" -> groups[2]
                [] repl[k] = "\\3" -> groups[3]
                [] OTHER -> <<repl[k]>>], <<>>)

\* re.sub(pat, repl, s): the text with every match replaced, from offset from on
RECURSIVE SubParts(_, _, _, _)
SubParts(s, ms, from, repl) ==
  IF Len(ms) = 0 THEN Slice(s, from, Len(s))
  ELSE Slice(s, from, ms[1].start) \o Expand(GroupTexts(s, ms[1]), repl)
       \o SubParts(s, Tail(ms), ms[1].end, repl)
ReSub(pat, repl, s) == SubParts(s, FindIter(pat, s), 0, repl)

---------------------------------------------------------------------------
(* GoldStandardChunker                                                     *)

\* number of matches of \b(w1|w2|...)\b in s
CountWords(s, alts) == Len(FindIter(<<"whole_word", alts>>, s))

detect_language(t) ==
  IF \E i \in 1..Len(t) : t[i] \in SpanishLower \cup Inverted THEN "spanish"
  ELSE LetIn(Lowered(t), LAMBDA low :
       LetIn(CountWords(low, SpanishWords) + CountWords(low, SpanishParticles), LAMBDA spanish_indicators :
       LetIn(CountWords(low, EnglishWords) + CountWords(low, EnglishParticles), LAMBDA english_indicators :
          IF spanish_indicators > english_indicators THEN "spanish" ELSE "english")))

\* f"__ABBREV_{i}_{j}__"
AbbrevPlaceholder(i, j) == <<"_","_","A","B","B","R","E","V","_">> \o Decimal(i) \o <<"_">> \o Decimal(j) \o <<"_","_">>

\* the inner loop of protect_abbreviations: the matches of pattern i, last first
RECURSIVE ProtectMatches(_, _, _, _)
ProtectMatches(s, i, ms, j) ==
  IF j >= Len(ms) THEN [text |-> s, map |-> <<>>]
  ELSE LetIn(ms[Len(ms) - j], LAMBDA m :
       LetIn(AbbrevPlaceholder(i, j), LAMBDA placeholder :
       LetIn(ProtectMatches(Slice(s, 0, m.start) \o placeholder \o Slice(s, m.end, Len(s)),
                            i, ms, j + 1),
             LAMBDA rest :
          [text |-> rest.text,
           map |-> <<[placeholder |-> placeholder, original |-> Group0(s, m)]>> \o rest.map])))

\* the outer loop of protect_abbreviations, from pattern i on
RECURSIVE ProtectFrom(_, _, _)
ProtectFrom(s, language, i) ==
  IF i >= NumAbbreviations(language) THEN [text |-> s, map |-> <<>>]
  ELSE LetIn(ProtectMatches(s, i, FindIter(<<"abbreviations", language, i>>, s), 0), LAMBDA one :
       LetIn(ProtectFrom(one.text, language, i + 1), LAMBDA rest :
          [text |-> rest.text, map |-> one.map \o rest.map]))

\* returns [text: the protected text, map: the protection map in insertion order]
protect_abbreviations(t, language) == ProtectFrom(t, language, 0)

RECURSIVE restore_abbreviations(_, _)
restore_abbreviations(t, protection_map) ==
  IF Len(protection_map) = 0 THEN t
  ELSE restore_abbreviations(Replace(t, protection_map[1].placeholder, protection_map[1].original),
                             Tail(protection_map))

\* the loop over the parts of a special-punctuation split (index i from 0)
RECURSIVE PunctuationParts(_, _, _, _, _)
PunctuationParts(parts, i, current_sentence, processed_parts, protection_map) ==
  IF i >= Len(parts)
  THEN IF Strip(current_sentence) # <<>>
       THEN Append(processed_parts, restore_abbreviations(Strip(current_sentence), protection_map))
       ELSE processed_parts
  ELSE IF i % 3 = 0
  THEN PunctuationParts(parts, i + 1, current_sentence \o parts[i + 1], processed_parts, protection_map)
  ELSE IF i % 3 = 1
  THEN LetIn(current_sentence \o parts[i + 1], LAMBDA cur :
          PunctuationParts(parts, i + 1, <<>>,
            IF Strip(cur) # <<>>
            THEN Append(processed_parts, restore_abbreviations(Strip(cur), protection_map))
            ELSE processed_parts,
            protection_map))
  ELSE PunctuationParts(parts, i + 1, current_sentence, processed_parts, protection_map)

\* the loop over the parts of the standard split
RECURSIVE StandardParts(_, _, _, _, _)
StandardParts(parts, i, current, sents, protection_map) ==
  IF i >= Len(parts)
  THEN IF Strip(current) # <<>>
       THEN Append(sents, restore_abbreviations(Strip(current), protection_map))
       ELSE sents
  ELSE IF i % 3 = 0 \/ i % 3 = 1
  THEN StandardParts(parts, i + 1, current \o parts[i + 1], sents, protection_map)
  ELSE StandardParts(parts, i + 1, <<>>,
         IF Strip(current) # <<>>
         THEN Append(sents, restore_abbreviations(Strip(current), protection_map))
         ELSE sents,
         protection_map)

\* a loop over self.punctuation_breaks that lets the last pattern that matches
\* decide
RECURSIVE LastClassFirst(_, _, _)
LastClassFirst(protected_text, protection_map, k) ==
  IF k >= 3 THEN <<>>
  ELSE LetIn(LastClassFirst(protected_text, protection_map, k + 1), LAMBDA later :
          IF later # <<>> THEN later
          ELSE IF Search(<<"punctuation_breaks", k>>, protected_text)
          THEN PunctuationParts(ReSplit(<<"punctuation_breaks", k>>, protected_text), 0,
                                <<>>, <<>>, protection_map)
          ELSE <<>>)

\* the loop over self.punctuation_breaks, from pattern k on; <<>> when no
\* pattern produced parts
RECURSIVE SpecialSplitFrom(_, _, _)
SpecialSplitFrom(protected_text, protection_map, k) ==
  IF k >= 3 THEN <<>>
  ELSE LetIn(<<"punctuation_breaks", k>>, LAMBDA pat :
       LetIn(IF Search(pat, protected_text)
             THEN PunctuationParts(ReSplit(pat, protected_text), 0, <<>>, <<>>,
                                   protection_map)
             ELSE <<>>,
             LAMBDA processed_parts :
          IF processed_parts # <<>> THEN processed_parts
          ELSE SpecialSplitFrom(protected_text, protection_map, k + 1)))

split_into_sentences(t, language) ==
  LetIn(protect_abbreviations(t, language), LAMBDA prot :
  LetIn(SpecialSplitFrom(prot.text, prot.map, 0), LAMBDA special :
  LetIn(StandardParts(ReSplit(<<"sentence_endings", language>>, prot.text), 0, <<>>, <<>>, prot.map), LAMBDA sents :
     IF special # <<>> THEN special
     ELSE SelectSeq(sents, LAMBDA x : Strip(x) # <<>>))))

\* the loop over self.natural_breaks: the break of the last pattern that matches
RECURSIVE NaturalBreakFrom(_, _, _, _, _)
NaturalBreakFrom(search_text, search_start, priority, best_break, best_priority) ==
  IF priority >= 4 THEN best_break
  ELSE LetIn(FindIter(<<"natural_breaks", priority>>, search_text),
             LAMBDA ms :
               IF Len(ms) > 0 /\ priority >= best_priority
               THEN NaturalBreakFrom(search_text, search_start, priority + 1,
                                     search_start + ms[Len(ms)].start
                                       + Len(Group1(search_text, ms[Len(ms)])),
                                     priority)
               ELSE NaturalBreakFrom(search_text, search_start, priority + 1,
                                     best_break, best_priority))

SearchWindow == 100

\* Strategy 2 and 3 of find_optimal_break_point: a natural break in the search
\* window, else the last space, else max_pos
WindowBreak(t, max_pos) ==
  LetIn(Max({0, max_pos - SearchWindow}),
        LAMBDA search_start :
  LetIn(NaturalBreakFrom(Slice(t, search_start, max_pos), search_start, 0, -1, 0),
        LAMBDA best_break :
  LetIn(Rfind(t, " ", 0, max_pos),
        LAMBDA last_space :
          IF best_break # -1 THEN best_break
          ELSE IF last_space # -1 THEN last_space
          ELSE max_pos)))

find_optimal_break_point(t, max_pos) ==
  IF Len(t) <= max_pos THEN Len(t)
  ELSE LetIn(Slice(t, 0, max_pos),
             LAMBDA head :
       LetIn(FindIter(<<"comma_conjunction">>, head),
             LAMBDA ms :
               IF Len(ms) > 0 THEN ms[Len(ms)].start + Len(Group1(head, ms[Len(ms)]))
               ELSE WindowBreak(t, max_pos)))

\* a selection that always takes the first match
FirstConjunction(ms, k, best, n) == 1

\* the match whose start is closest to 60% of the sentence (the first one on ties)
RECURSIVE BestConjunction(_, _, _, _)
BestConjunction(ms, k, best, n) ==
  IF k > Len(ms) THEN best
  ELSE LET Dist(m) == IF 10 * m.start >= 6 * n THEN 10 * m.start - 6 * n ELSE 6 * n - 10 * m.start
       IN IF best = 0 \/ Dist(ms[k]) < Dist(ms[best])
          THEN BestConjunction(ms, k + 1, k, n)
          ELSE BestConjunction(ms, k + 1, best, n)

\* a loop that uses the break point as it comes
UncheckedBreakPoint(bp, max_size) == bp

\* lines 265-266: "if break_point <= 0: break_point = self.max_size"
BreakPointOrMax(bp, max_size) == IF bp <= 0 THEN max_size ELSE bp

\* one iteration of the while loop of chunk_long_sentence, lines 262-273:
\* the remaining text and the list of chunks after it
LongSentenceStep(rem, out, max_size) ==
  LetIn(BreakPointOrMax(find_optimal_break_point(rem, max_size), max_size), LAMBDA break_point :
  LetIn(Strip(Slice(rem, 0, break_point)), LAMBDA chunk :
     [remaining |-> Strip(Slice(rem, break_point, Len(rem))),
      chunks |-> IF chunk # <<>> THEN Append(out, chunk) ELSE out]))

\* the while loop of chunk_long_sentence
RECURSIVE LongSentenceLoop(_, _, _)
LongSentenceLoop(rem, out, max_size) ==
  IF Len(rem) > 0 /\ Len(rem) > max_size
  THEN LetIn(LongSentenceStep(rem, out, max_size), LAMBDA after :
          LongSentenceLoop(after.remaining, after.chunks, max_size))
  ELSE IF Len(rem) > 0 THEN Append(out, rem) ELSE out

\* lines 234-254: the split at the best comma + conjunction match, <<>> when the
\* code goes on to the fallback
ConjunctionSplit(sentence, c) ==
  LetIn(FindIter(<<"comma_conjunction">>, sentence), LAMBDA ms :
  LetIn(IF Len(ms) > 0 /\ Len(sentence) >= c.target_size
        THEN LetIn(ms[BestConjunction(ms, 1, 0, Len(sentence))],
                   LAMBDA best_match : best_match.start + Len(Group1(sentence, best_match)))
        ELSE -1, LAMBDA break_point :
     IF break_point # -1 /\ Strip(Slice(sentence, 0, break_point)) # <<>>
        /\ Strip(Slice(sentence, break_point, Len(sentence))) # <<>>
     THEN <<Strip(Slice(sentence, 0, break_point)),
            Strip(Slice(sentence, break_point, Len(sentence)))>>
     ELSE <<>>))

chunk_long_sentence(sentence, c) ==
  LetIn(ConjunctionSplit(sentence, c), LAMBDA parts :
     IF parts # <<>> THEN parts
     ELSE IF Len(sentence) <= c.max_size THEN <<sentence>>
     ELSE LongSentenceLoop(sentence, <<>>, c.max_size))

\* a join that leaves out the space
Unspaced(cur, sentence) == cur \o sentence

\* current_chunk + (" " if current_chunk else "") + sentence
Potential(cur, sentence) == IF cur # <<>> THEN cur \o <<" ">> \o sentence ELSE sentence

\* a flush that does not look at the current chunk
AlwaysFlushed(cs, cur) == Append(cs, Strip(cur))

\* "if current_chunk: chunks.append(current_chunk.strip())"
Flushed(cs, cur) == IF cur # <<>> THEN Append(cs, Strip(cur)) ELSE cs

\* a sentence loop that hands every sentence to chunk_long_sentence
AlwaysBreak(sentence, cur, c) == "break"

\* which branch of the sentence loop of gold_standard_chunk_text takes the sentence
GoldBranch(sentence, cur, c) ==
  IF Len(sentence) > c.max_size THEN "too_long"
  ELSE IF c.prefer_sentence_boundaries
          /\ Len(sentence) <= c.min_size /\ Len(Potential(cur, sentence)) <= c.target_size
  THEN "group"
  ELSE IF c.prefer_sentence_boundaries
          /\ Len(sentence) < c.target_size /\ Len(sentence) > c.min_size
  THEN "separate"
  ELSE IF c.prefer_sentence_boundaries /\ Len(sentence) >= c.target_size
  THEN "break"
  ELSE IF Len(Potential(cur, sentence)) <= c.target_size \/ cur = <<>>
  THEN "append"
  ELSE "new"

\* a guard that lets every input into the pipeline
NeverEmptyInput(t) == FALSE

\* line 283: "if not text.strip()"
EmptyInput(t) == Strip(t) = <<>>

\* gold_standard_chunk_text, lines 283-294: the guard, language detection and sentence split
GoldStart ==
  /\ engine = "gold" /\ pc = "start"
  /\ IF EmptyInput(text)
     THEN /\ result' = <<>>
          /\ pc' = "done"
          /\ UNCHANGED sentences
     ELSE \E sents \in {split_into_sentences(text, detect_language(text))} :
             /\ sentences' = sents
             /\ IF sents = <<>>
                THEN result' = <<Strip(text)>> /\ pc' = "done"
                ELSE pc' = "loop" /\ UNCHANGED result
  /\ idx' = 1
  /\ UNCHANGED <<engine, cfg, text, masking, history, services, paragraphs, pidx, current_chunk, chunks, long_calls, remaining, break_type, splits>>

\* one iteration of the sentence loop, lines 299-356
GoldSentence ==
  /\ engine = "gold" /\ pc = "loop" /\ idx <= Len(sentences)
  /\ \E sentence \in {Strip(sentences[idx])} :
     \E branch \in {GoldBranch(sentence, current_chunk, cfg)} :
        IF sentence = <<>>
        THEN UNCHANGED <<current_chunk, chunks, long_calls>>
        ELSE CASE branch \in {"too_long", "break"} ->
                    /\ chunks' = Flushed(chunks, current_chunk) \o chunk_long_sentence(sentence, cfg)
                    /\ current_chunk' = <<>>
                    /\ long_calls' = Append(long_calls,
                                           [sentence |-> sentence,
                                            first |-> Len(Flushed(chunks, current_chunk)) + 1,
                                            last |-> Len(Flushed(chunks, current_chunk))
                                                     + Len(chunk_long_sentence(sentence, cfg))])
               [] branch \in {"group", "append"} ->
                    /\ current_chunk' = Potential(current_chunk, sentence)
                    /\ UNCHANGED <<chunks, long_calls>>
               [] branch = "separate" ->
                    /\ chunks' = Append(Flushed(chunks, current_chunk), sentence)
                    /\ current_chunk' = <<>>
                    /\ UNCHANGED long_calls
               [] OTHER ->
                    /\ chunks' = Append(chunks, Strip(current_chunk))
                    /\ current_chunk' = sentence
                    /\ UNCHANGED long_calls
  /\ idx' = idx + 1
  /\ UNCHANGED <<engine, cfg, text, masking, history, services, paragraphs, pidx, pc, sentences, remaining, break_type, splits, result>>

\* lines 358-366: the final chunk and the never-empty fallback
GoldFinish ==
  /\ engine = "gold" /\ pc = "loop" /\ idx > Len(sentences)
  /\ \E cs \in {IF Strip(current_chunk) # <<>> THEN Append(chunks, Strip(current_chunk)) ELSE chunks} :
     \E out \in {IF cs = <<>> /\ Strip(text) # <<>> THEN <<Strip(text)>> ELSE cs} :
        chunks' = out /\ result' = out
  /\ pc' = "done"
  /\ UNCHANGED <<engine, cfg, text, masking, history, services, paragraphs, pidx, sentences, idx, current_chunk, long_calls,
                 remaining, break_type, splits>>

\* locals that a call finds as the call before left them
KeptLocals == [chunks |-> chunks, current_chunk |-> current_chunk]

\* lines 296-297: "chunks = []", "current_chunk = ''", locals of the call
NewLocals == [chunks |-> <<>>, current_chunk |-> <<>>]


---------------------------------------------------------------------------
(* Text normalization shared by the TTS, natural and smart chunkers        *)

\* re.sub(r'([.!?])([A-Z])', r'\1 \2', s)
SpaceAfterPunct(s) ==
  ReSub(<<"class_pair", SentencePunct, UpperAZ, FALSE>>, <<"\\1", " ", "\\2">>, s)

\* re.sub(r'([;:,])([^\s])', r'\1 \2', s)
SpaceAfterSeparator(s) ==
  ReSub(<<"class_pair", {";", ":", ","}, Whitespace, TRUE>>, <<"\\1", " ", "\\2">>, s)

\* re.sub(r'([.!?])(\s*)$', r'\1', s)
CleanEnding(s) ==
  LetIn({p \in 0..(Len(s) - 1) : CharIn(s, p, SentencePunct) /\ IsBlank(Slice(s, p + 1, Len(s)))}, LAMBDA hits :
     IF hits = {} THEN s ELSE Slice(s, 0, Min(hits) + 1))

\* re.sub(r'([.!?])(\s+)([A-Z])', r'\1 \2\3', s)
WidenSentenceGap(s) == ReSub(<<"punct_space_capital">>, <<"\\1", " ", "\\2", "\\3">>, s)

\* the text parts of paragraph_breaks.split(s)
ParagraphsOf(s) == ReSplit(<<"paragraph_breaks">>, s)

---------------------------------------------------------------------------
(* TTSOptimizedChunker                                                     *)

_normalize_for_tts(t) ==
  Strip(WidenSentenceGap(CleanEnding(SpaceAfterSeparator(SpaceAfterPunct(Normalize(t))))))

\* a chunk that is only stripped
Unterminated(chunk) == Strip(chunk)

_ensure_tts_termination(chunk) ==
  LetIn(Strip(chunk), LAMBDA c :
     IF c = <<>> THEN c
     ELSE IF ~EndsWithAny(c, SentencePunct) THEN c \o <<".">>
     ELSE c)

\* f"__PROTECT_{n}__"
ProtectPlaceholder(n) == <<"_","_","P","R","O","T","E","C","T","_">> \o Decimal(n) \o <<"_","_">>

\* all matches of the patterns of a table in the original paragraph, pattern by pattern
RECURSIVE ProtectedMatches(_, _, _, _)
ProtectedMatches(table, count, paragraph, i) ==
  IF i >= count THEN <<>>
  ELSE LetIn(FindIter(<<table, i>>, paragraph), LAMBDA ms :
          [k \in 1..Len(ms) |-> Group0(paragraph, ms[k])] \o ProtectedMatches(table, count, paragraph, i + 1))

\* the protection loop: every matched text is replaced once, in order, in protected_text
RECURSIVE ProtectLoop(_, _, _)
ProtectLoop(protected_text, matched, n) ==
  IF n >= Len(matched) THEN [text |-> protected_text, map |-> <<>>]
  ELSE LetIn(ProtectPlaceholder(n), LAMBDA placeholder :
       LetIn(ProtectLoop(ReplaceFirst(protected_text, matched[n + 1], placeholder), matched, n + 1), LAMBDA rest :
          [text |-> rest.text,
           map |-> <<[placeholder |-> placeholder, original |-> matched[n + 1]]>> \o rest.map]))

\* the loop for i in range(0, len(parts) - 1, 2) of _split_sentences_tts_safe
RECURSIVE TtsSentenceParts(_, _, _)
TtsSentenceParts(parts, i, protection_map) ==
  IF i >= Len(parts) - 1 THEN <<>>
  ELSE LetIn(Strip(parts[i + 1]), LAMBDA sentence_content :
       LetIn(restore_abbreviations(sentence_content \o parts[i + 2], protection_map), LAMBDA full_sentence :
          (IF sentence_content # <<>> THEN <<Strip(full_sentence)>> ELSE <<>>)
          \o TtsSentenceParts(parts, i + 2, protection_map)))

_split_sentences_tts_safe(paragraph) ==
  LetIn(ProtectLoop(paragraph, ProtectedMatches("protected_patterns", 4, paragraph, 0), 0), LAMBDA prot :
  LetIn(ReSplit(<<"tts_sentence_endings">>, prot.text), LAMBDA parts :
  LetIn(parts[Len(parts)], LAMBDA last :
     TtsSentenceParts(parts, 0, prot.map)
     \o (IF Len(parts) % 2 = 1 /\ Strip(last) # <<>>
         THEN <<restore_abbreviations(Strip(last), prot.map)>> ELSE <<>>))))

\* min(matches, key=lambda m: abs(m.end() - target_pos)): index of the first closest match
ClosestByEnd(ms, target_pos) ==
  LET Dist(k) == IF ms[k].end >= target_pos THEN ms[k].end - target_pos ELSE target_pos - ms[k].end
  IN Min({k \in 1..Len(ms) : \A j \in 1..Len(ms) : Dist(k) <= Dist(j)})

\* the split _split_long_sentence_tts_safe tries for break pattern i:
\* [found: the pattern matches, first_part, second_part]
TtsCandidate(sentence, i) ==
  LetIn(FindIter(<<"break_patterns", i>>, sentence),
        LAMBDA ms :
          IF Len(ms) = 0 THEN [found |-> FALSE, first_part |-> <<>>, second_part |-> <<>>]
          ELSE LetIn(ms[ClosestByEnd(ms, Len(sentence) \div 2)],
                     LAMBDA best_match :
                       [found |-> TRUE,
                        first_part |-> Strip(Slice(sentence, 0, best_match.end)),
                        second_part |-> Strip(Slice(sentence, best_match.end, Len(sentence)))]))

\* a validation that accepts every split the pattern offers
AnyFoundSplit(cand, c) == cand.found

\* "Validate both parts are reasonable"
TtsValidSplit(cand, c) ==
  cand.found /\ Len(cand.first_part) >= c.min_size /\ Len(cand.second_part) >= c.min_size

\* the break patterns tried conjunction first, then semicolon, relative clause, comma
ConjunctionFirstClass(sentence, c) ==
  LetIn({i \in 0..3 : TtsValidSplit(TtsCandidate(sentence, i), c)}, LAMBDA ok :
     IF 1 \in ok THEN 1 ELSE IF ok = {} THEN 4 ELSE Min(ok))

\* index of the first break pattern, in list order, whose split is accepted; 4 when none is
TtsBreakClass(sentence, c) ==
  LetIn({i \in 0..3 : TtsValidSplit(TtsCandidate(sentence, i), c)}, LAMBDA ok :
     IF ok = {} THEN 4 ELSE Min(ok))

\* _split_at_words / _force_split_at_words: the loop over the words
RECURSIVE SplitWordsLoop(_, _, _, _)
SplitWordsLoop(words, cur, out, target_size) ==
  IF Len(words) = 0 THEN (IF cur # <<>> THEN Append(out, cur) ELSE out)
  ELSE LetIn(IF cur # <<>> THEN cur \o <<" ">> \o words[1] ELSE words[1], LAMBDA test_chunk :
          IF Len(test_chunk) > target_size
          THEN SplitWordsLoop(Tail(words), words[1], IF cur # <<>> THEN Append(out, cur) ELSE out, target_size)
          ELSE SplitWordsLoop(Tail(words), test_chunk, out, target_size))

_split_at_words(t, c) == SplitWordsLoop(Words(t), <<>>, <<>>, c.target_size)

\* _split_long_sentence_tts_safe as a function: the pieces of a sentence
RECURSIVE _split_long_sentence_tts_safe(_, _)
_split_long_sentence_tts_safe(sentence, c) ==
  LetIn(TtsBreakClass(sentence, c), LAMBDA i :
  LetIn(TtsCandidate(sentence, i), LAMBDA cand :
     IF i = 4 THEN _split_at_words(sentence, c)
     ELSE IF Len(cand.second_part) > c.max_size
     THEN <<cand.first_part>> \o _split_long_sentence_tts_safe(cand.second_part, c)
     ELSE <<cand.first_part, cand.second_part>>))

\* [_ensure_tts_termination(chunk) for chunk in cs]
Terminated(cs) == [k \in 1..Len(cs) |-> _ensure_tts_termination(cs[k])]

\* [chunk for chunk in cs if len(chunk.strip()) >= self.min_size]
MinSizeFilter(cs, c) == SelectSeq(cs, LAMBDA x : Len(Strip(x)) >= c.min_size)

\* an assembler that looks at target_size only
TargetOnly(cur, sentence, c) ==
  Len(IF cur # <<>> THEN cur \o <<" ">> \o sentence ELSE sentence) <= c.target_size

\* which branch of the assembler loop takes a sentence that is not too long
AssemblerAppends(cur, sentence, c) ==
  LetIn(IF cur # <<>> THEN cur \o <<" ">> \o sentence ELSE sentence, LAMBDA test_chunk :
     \/ Len(test_chunk) <= c.target_size
     \/ (Len(cur) < c.min_size /\ Len(test_chunk) <= c.max_size))

\* tts_chunk_text, lines 53-57: normalize and split into paragraphs
TtsStart ==
  /\ engine = "tts" /\ pc = "start"
  /\ paragraphs' = ParagraphsOf(_normalize_for_tts(text))
  /\ pidx' = 1
  /\ pc' = "para"
  /\ UNCHANGED <<engine, cfg, text, masking, history, services, sentences, idx, current_chunk, chunks, long_calls,
                 remaining, break_type, splits, result>>

\* one iteration of the paragraph loop, up to the sentence split (lines 60-94)
TtsParagraph ==
  /\ engine = "tts" /\ pc = "para" /\ pidx <= Len(paragraphs)
  /\ \E paragraph \in {Strip(paragraphs[pidx])} :
        IF paragraph = <<>>
        THEN /\ pidx' = pidx + 1
             /\ UNCHANGED <<pc, sentences, idx, current_chunk, chunks>>
        ELSE IF Len(paragraph) <= cfg.max_size
        THEN /\ chunks' = Append(chunks, _ensure_tts_termination(paragraph))
             /\ pidx' = pidx + 1
             /\ UNCHANGED <<pc, sentences, idx, current_chunk>>
        ELSE /\ sentences' = _split_sentences_tts_safe(paragraph)
             /\ idx' = 1
             /\ current_chunk' = <<>>
             /\ pc' = "loop"
             /\ UNCHANGED <<pidx, chunks>>
  /\ UNCHANGED <<engine, cfg, text, masking, history, services, paragraphs, long_calls, remaining, break_type, splits, result>>

\* one iteration of the sentence loop of _chunk_paragraph_for_tts (lines 96-121)
TtsSentence ==
  /\ engine = "tts" /\ pc = "loop" /\ idx <= Len(sentences)
  /\ \E sentence \in {sentences[idx]} :
     \E test_chunk \in {IF current_chunk # <<>> THEN current_chunk \o <<" ">> \o sentence ELSE sentence} :
        IF Len(sentence) > cfg.max_size
        THEN /\ chunks' = IF current_chunk # <<>>
                          THEN Append(chunks, _ensure_tts_termination(current_chunk)) ELSE chunks
             /\ current_chunk' = <<>>
             /\ remaining' = sentence
             /\ pc' = "split"
             /\ UNCHANGED idx
        ELSE /\ IF AssemblerAppends(current_chunk, sentence, cfg)
                THEN current_chunk' = test_chunk /\ UNCHANGED chunks
                ELSE /\ chunks' = IF current_chunk # <<>>
                                  THEN Append(chunks, _ensure_tts_termination(current_chunk)) ELSE chunks
                     /\ current_chunk' = sentence
             /\ idx' = idx + 1
             /\ UNCHANGED <<pc, remaining>>
  /\ UNCHANGED <<engine, cfg, text, masking, history, services, paragraphs, pidx, sentences, long_calls, break_type, splits, result>>

\* one call of _split_long_sentence_tts_safe (lines 175-209); the recursive call on
\* the second part is the next step
TtsSplitLong ==
  /\ engine = "tts" /\ pc = "split"
  /\ \E i \in {TtsBreakClass(remaining, cfg)} :
     \E cand \in {TtsCandidate(remaining, i)} :
        IF i < 4
        THEN /\ break_type' = BreakTypeName(i)
             /\ splits' = Append(splits, [sentence |-> remaining, break_type |-> BreakTypeName(i),
                                          first_part |-> cand.first_part, second_part |-> cand.second_part])
             /\ IF Len(cand.second_part) > cfg.max_size
                THEN /\ chunks' = Append(chunks, _ensure_tts_termination(cand.first_part))
                     /\ remaining' = cand.second_part
                     /\ UNCHANGED <<pc, idx>>
                ELSE /\ chunks' = chunks \o Terminated(<<cand.first_part, cand.second_part>>)
                     /\ remaining' = <<>>
                     /\ pc' = "loop"
                     /\ idx' = idx + 1
        ELSE /\ break_type' = "words"
             /\ chunks' = chunks \o Terminated(_split_at_words(remaining, cfg))
             /\ remaining' = <<>>
             /\ pc' = "loop"
             /\ idx' = idx + 1
             /\ UNCHANGED splits
  /\ UNCHANGED <<engine, cfg, text, masking, history, services, paragraphs, pidx, sentences, current_chunk, long_calls, result>>

\* after the last sentence: the final chunk of the paragraph (lines 123-127)
TtsParagraphEnd ==
  /\ engine = "tts" /\ pc = "loop" /\ idx > Len(sentences)
  /\ chunks' = IF current_chunk # <<>>
               THEN Append(chunks, _ensure_tts_termination(current_chunk)) ELSE chunks
  /\ current_chunk' = <<>>
  /\ pidx' = pidx + 1
  /\ pc' = "para"
  /\ UNCHANGED <<engine, cfg, text, masking, history, services, paragraphs, sentences, idx, long_calls, remaining,
                 break_type, splits, result>>

\* line 67: the minimum-size filter on the way out
TtsFinish ==
  /\ engine = "tts" /\ pc = "para" /\ pidx > Len(paragraphs)
  /\ result' = MinSizeFilter(chunks, cfg)
  /\ pc' = "done"
  /\ UNCHANGED <<engine, cfg, text, masking, history, services, paragraphs, pidx, sentences, idx, current_chunk, chunks,
                 long_calls, remaining, break_type, splits>>

---------------------------------------------------------------------------
(* NaturalSpeechChunker                                                    *)

\* re.sub(r'[ \t]+', ' ', s) and re.sub(r'\s+', ' ', s): every run of cls becomes one space
SquashRuns(s, cls) == ReSub(<<"run", cls>>, <<" ">>, s)

\* re.sub(r'\n[ \t]*\n', '\n\n', s)
NormalizeParagraphBreaks(s) == ReSub(<<"blank_line">>, <<"\n", "\n">>, s)

NaturalNormalize(t) ==
  Strip(SquashRuns(
          SpaceAfterSeparator(
            SpaceAfterPunct(NormalizeParagraphBreaks(SquashRuns(t, {" ", "\t"})))),
          Whitespace))

\* the loop over sentences[:-1] of _split_sentences_advanced / _split_sentences
RECURSIVE SentencesWithEndings(_, _, _, _)
SentencesWithEndings(texts, endings, i, protection_map) ==
  IF i >= Len(texts) - 1 THEN <<>>
  ELSE LetIn(IF i < Len(endings) THEN endings[i + 1] ELSE <<".", " ">>, LAMBDA ending :
       LetIn(restore_abbreviations(Strip(texts[i + 1]) \o Strip(ending), protection_map), LAMBDA full_sentence :
          (IF Strip(texts[i + 1]) # <<>> THEN <<full_sentence>> ELSE <<>>)
          \o SentencesWithEndings(texts, endings, i + 1, protection_map)))

\* sentences split at [.!?]+\s+ and rebuilt with their endings, then the last one
SplitAtStrongBreaks(protected_text, protection_map) ==
  LetIn(ReSplit(<<"strong_breaks">>, protected_text), LAMBDA texts :
  LetIn(ReFindAll(<<"strong_breaks">>, protected_text), LAMBDA endings :
  LetIn(texts[Len(texts)], LAMBDA last :
     SentencesWithEndings(texts, endings, 0, protection_map)
     \o (IF Strip(last) # <<>> THEN <<restore_abbreviations(Strip(last), protection_map)>> ELSE <<>>))))

_split_sentences_advanced(paragraph) ==
  LetIn(ProtectLoop(paragraph, ProtectedMatches("no_break_patterns", 5, paragraph, 0), 0), LAMBDA prot :
     SplitAtStrongBreaks(prot.text, prot.map))

\* min(breaks, key=lambda m: abs(m.start() - target_pos)): index of the first closest match
ClosestByStart(ms, target_pos) ==
  LET Dist(k) == IF ms[k].start >= target_pos THEN ms[k].start - target_pos ELSE target_pos - ms[k].start
  IN Min({k \in 1..Len(ms) : \A j \in 1..Len(ms) : Dist(k) <= Dist(j)})

AllWithin(cs, c) == \A k \in 1..Len(cs) : c.min_size <= Len(cs[k]) /\ Len(cs[k]) <= c.max_size

_force_split_at_words(sentence, c) == SplitWordsLoop(Words(sentence), <<>>, <<>>, c.target_size)

RECURSIVE _split_long_sentence_naturally(_, _)
RECURSIVE _attempt_split_at_pattern(_, _, _)
RECURSIVE SplitAfter(_, _, _)
RECURSIVE NaturalAttempts(_, _, _)

\* the pieces when the sentence is split after best_break
SplitAfter(sentence, best_break, c) ==
  LetIn(Strip(Slice(sentence, 0, best_break.end)),
        LAMBDA first_part :
  LetIn(Strip(Slice(sentence, best_break.end, Len(sentence))),
        LAMBDA second_part :
          IF Len(first_part) >= c.min_size /\ Len(second_part) >= c.min_size
          THEN (IF Len(second_part) > c.max_size
                THEN <<first_part>> \o _split_long_sentence_naturally(second_part, c)
                ELSE <<first_part, second_part>>)
          ELSE <<>>))

_attempt_split_at_pattern(sentence, i, c) ==
  LetIn(FindIter(<<"break_attempts", i>>, sentence),
        LAMBDA breaks :
          IF Len(breaks) = 0 THEN <<>>
          ELSE SplitAfter(sentence, breaks[ClosestByStart(breaks, Len(sentence) \div 2)], c))

\* the loop over break_attempts, from attempt i on
NaturalAttempts(sentence, i, c) ==
  IF i >= 7 THEN _force_split_at_words(sentence, c)
  ELSE LetIn(_attempt_split_at_pattern(sentence, i, c), LAMBDA cs :
          IF cs # <<>> /\ AllWithin(cs, c) THEN cs ELSE NaturalAttempts(sentence, i + 1, c))

_split_long_sentence_naturally(sentence, c) == NaturalAttempts(sentence, 0, c)

\* natural_chunk_text, lines 67-71
NaturalStart ==
  /\ engine = "natural" /\ pc = "start"
  /\ paragraphs' = ParagraphsOf(NaturalNormalize(text))
  /\ pidx' = 1
  /\ pc' = "para"
  /\ UNCHANGED <<engine, cfg, text, masking, history, services, sentences, idx, current_chunk, chunks, long_calls,
                 remaining, break_type, splits, result>>

\* one iteration of the paragraph loop, up to the sentence split (lines 74-111)
NaturalParagraph ==
  /\ engine = "natural" /\ pc = "para" /\ pidx <= Len(paragraphs)
  /\ \E paragraph \in {Strip(paragraphs[pidx])} :
        IF paragraph = <<>>
        THEN /\ pidx' = pidx + 1
             /\ UNCHANGED <<pc, sentences, idx, current_chunk, chunks>>
        ELSE IF Len(paragraph) <= cfg.max_size
        THEN /\ chunks' = Append(chunks, paragraph)
             /\ pidx' = pidx + 1
             /\ UNCHANGED <<pc, sentences, idx, current_chunk>>
        ELSE /\ sentences' = _split_sentences_advanced(paragraph)
             /\ idx' = 1
             /\ current_chunk' = <<>>
             /\ pc' = "loop"
             /\ UNCHANGED <<pidx, chunks>>
  /\ UNCHANGED <<engine, cfg, text, masking, history, services, paragraphs, long_calls, remaining, break_type, splits, result>>

\* one iteration of the sentence loop of _chunk_paragraph_naturally (lines 113-141)
NaturalSentence ==
  /\ engine = "natural" /\ pc = "loop" /\ idx <= Len(sentences)
  /\ \E sentence \in {sentences[idx]} :
     \E potential_chunk \in {IF current_chunk # <<>> THEN current_chunk \o <<" ">> \o sentence ELSE sentence} :
        IF Len(sentence) > cfg.max_size
        THEN /\ chunks' = Flushed(chunks, current_chunk) \o _split_long_sentence_naturally(sentence, cfg)
             /\ current_chunk' = <<>>
        ELSE IF Len(potential_chunk) > cfg.target_size
        THEN IF Len(current_chunk) < cfg.min_size /\ Len(potential_chunk) <= cfg.max_size
             THEN current_chunk' = potential_chunk /\ UNCHANGED chunks
             ELSE chunks' = Flushed(chunks, current_chunk) /\ current_chunk' = sentence
        ELSE current_chunk' = potential_chunk /\ UNCHANGED chunks
  /\ idx' = idx + 1
  /\ UNCHANGED <<engine, cfg, text, masking, history, services, paragraphs, pidx, pc, sentences, long_calls, remaining,
                 break_type, splits, result>>

\* the final chunk of the paragraph, with sentence termination (lines 143-151)
NaturalParagraphEnd ==
  /\ engine = "natural" /\ pc = "loop" /\ idx > Len(sentences)
  /\ \E final_chunk \in {Strip(current_chunk)} :
        chunks' = IF current_chunk # <<>>
                  THEN Append(chunks, IF final_chunk # <<>> /\ ~EndsWithAny(final_chunk, SentencePunct)
                                      THEN final_chunk \o <<".">> ELSE final_chunk)
                  ELSE chunks
  /\ current_chunk' = <<>>
  /\ pidx' = pidx + 1
  /\ pc' = "para"
  /\ UNCHANGED <<engine, cfg, text, masking, history, services, paragraphs, sentences, idx, long_calls, remaining,
                 break_type, splits, result>>

\* lines 82-85: "Filter out chunks that are too small or empty"
NaturalFinish ==
  /\ engine = "natural" /\ pc = "para" /\ pidx > Len(paragraphs)
  /\ result' = MinSizeFilter(chunks, cfg)
  /\ pc' = "done"
  /\ UNCHANGED <<engine, cfg, text, masking, history, services, paragraphs, pidx, sentences, idx, current_chunk, chunks,
                 long_calls, remaining, break_type, splits>>

---------------------------------------------------------------------------
(* SmartChunker                                                            *)

SmartNormalize(t) == SpaceAfterPunct(Normalize(t))

_split_sentences(paragraph) == SplitAtStrongBreaks(paragraph, <<>>)

\* str.rstrip()
RStrip(s) ==
  IF IsBlank(s) THEN <<>>
  ELSE SubSeq(s, 1, Max({i \in 1..Len(s) : s[i] \notin Whitespace}))

\* the last-resort loop of _force_split_sentence
RECURSIVE ForceSplitLoop(_, _, _)
ForceSplitLoop(sentence, out, c) ==
  IF Len(sentence) > c.max_size
  THEN LetIn(Rfind(sentence, " ", 0, c.max_size), LAMBDA found :
       LetIn(IF found = -1 THEN c.max_size ELSE found, LAMBDA split_pos :
          ForceSplitLoop(LStrip(Slice(sentence, split_pos, Len(sentence))),
                         Append(out, Slice(sentence, 0, split_pos)), c)))
  ELSE IF sentence # <<>> THEN Append(out, sentence) ELSE out

\* the loop over break_points, from break point k (1-based) on
RECURSIVE ForceSplitFrom(_, _, _)
ForceSplitFrom(sentence, k, c) ==
  IF k > Len(SmartBreakPoints) THEN ForceSplitLoop(sentence, <<>>, c)
  ELSE LetIn(SmartBreakPoints[k], LAMBDA break_point :
       LetIn(Find(sentence, break_point, 0), LAMBDA at :
       LetIn(Slice(sentence, 0, at), LAMBDA head :
       LetIn(Slice(sentence, at + Len(break_point), Len(sentence)), LAMBDA tail :
          IF at # -1 /\ Len(head) > c.min_size /\ Len(tail) > c.min_size
          THEN <<head \o RStrip(break_point)>> \o ForceSplitFrom(tail, 1, c)
          ELSE ForceSplitFrom(sentence, k + 1, c)))))

_force_split_sentence(sentence, c) == ForceSplitFrom(sentence, 1, c)

\* smart_chunk_text, lines 44-48
SmartStart ==
  /\ engine = "smart" /\ pc = "start"
  /\ paragraphs' = ParagraphsOf(SmartNormalize(text))
  /\ pidx' = 1
  /\ pc' = "para"
  /\ UNCHANGED <<engine, cfg, text, masking, history, services, sentences, idx, current_chunk, chunks, long_calls,
                 remaining, break_type, splits, result>>

\* one iteration of the paragraph loop, up to the sentence split (lines 51-80)
SmartParagraph ==
  /\ engine = "smart" /\ pc = "para" /\ pidx <= Len(paragraphs)
  /\ \E paragraph \in {Strip(paragraphs[pidx])} :
        IF paragraph = <<>>
        THEN /\ pidx' = pidx + 1
             /\ UNCHANGED <<pc, sentences, idx, current_chunk, chunks>>
        ELSE IF Len(paragraph) <= cfg.max_size
        THEN /\ chunks' = Append(chunks, paragraph)
             /\ pidx' = pidx + 1
             /\ UNCHANGED <<pc, sentences, idx, current_chunk>>
        ELSE /\ sentences' = _split_sentences(paragraph)
             /\ idx' = 1
             /\ current_chunk' = <<>>
             /\ pc' = "loop"
             /\ UNCHANGED <<pidx, chunks>>
  /\ UNCHANGED <<engine, cfg, text, masking, history, services, paragraphs, long_calls, remaining, break_type, splits, result>>

\* one iteration of the sentence loop of _chunk_paragraph (lines 82-103)
SmartSentence ==
  /\ engine = "smart" /\ pc = "loop" /\ idx <= Len(sentences)
  /\ \E sentence \in {sentences[idx]} :
     \E potential_chunk \in {IF current_chunk # <<>> THEN current_chunk \o <<" ">> \o sentence ELSE sentence} :
        IF Len(sentence) > cfg.max_size
        THEN /\ chunks' = Flushed(chunks, current_chunk) \o _force_split_sentence(sentence, cfg)
             /\ current_chunk' = <<>>
        ELSE IF Len(potential_chunk) > cfg.target_size
        THEN chunks' = Flushed(chunks, current_chunk) /\ current_chunk' = sentence
        ELSE current_chunk' = potential_chunk /\ UNCHANGED chunks
  /\ idx' = idx + 1
  /\ UNCHANGED <<engine, cfg, text, masking, history, services, paragraphs, pidx, pc, sentences, long_calls, remaining,
                 break_type, splits, result>>

\* the remaining chunk of the paragraph (lines 105-109)
SmartParagraphEnd ==
  /\ engine = "smart" /\ pc = "loop" /\ idx > Len(sentences)
  /\ chunks' = Flushed(chunks, current_chunk)
  /\ current_chunk' = <<>>
  /\ pidx' = pidx + 1
  /\ pc' = "para"
  /\ UNCHANGED <<engine, cfg, text, masking, history, services, paragraphs, sentences, idx, long_calls, remaining,
                 break_type, splits, result>>

\* line 59: the minimum-size filter on the way out
SmartFinish ==
  /\ engine = "smart" /\ pc = "para" /\ pidx > Len(paragraphs)
  /\ result' = MinSizeFilter(chunks, cfg)
  /\ pc' = "done"
  /\ UNCHANGED <<engine, cfg, text, masking, history, services, paragraphs, pidx, sentences, idx, current_chunk, chunks,
                 long_calls, remaining, break_type, splits>>
\* the sequences of ts joined into one
RECURSIVE Concat(_)
Concat(ts) == IF Len(ts) = 0 THEN <<>> ELSE ts[1] \o Concat(Tail(ts))

---------------------------------------------------------------------------
(* protect_abbreviations and restore_abbreviations called directly          *)

\* protected_text, protection_map = chunker.protect_abbreviations(text, language)
Protect ==
  /\ engine = "gold" /\ pc = "protect"
  /\ \E r \in {protect_abbreviations(text, lang)} :
        /\ protected' = r.text
        /\ protection' = r.map
  /\ pc' = "restore"
  /\ UNCHANGED <<engine, cfg, text, lang, restored, history, services, paragraphs, pidx, sentences, idx,
                 current_chunk, chunks, long_calls, remaining, break_type, splits, result>>

\* chunker.restore_abbreviations(protected_text, protection_map)
Restore ==
  /\ engine = "gold" /\ pc = "restore"
  /\ restored' = restore_abbreviations(protected, protection)
  /\ pc' = "restored"
  /\ UNCHANGED <<engine, cfg, text, lang, protected, protection, history, services, paragraphs, pidx,
                 sentences, idx, current_chunk, chunks, long_calls, remaining, break_type,
                 splits, result>>

---------------------------------------------------------------------------
(* the constructors                                                         *)

\* the state of a chunker that is not constructed yet
NoInstance == [target_size |-> 0, max_size |-> 0, min_size |-> 0]

\* size thresholds handed to a constructor: one ordering that holds, then
\* min_size >= target_size, target_size > max_size, and a min_size that is not positive
ConstructorSizes ==
  {[target_size |-> 10, max_size |-> 16, min_size |-> 4],
   [target_size |-> 10, max_size |-> 16, min_size |-> 12],
   [target_size |-> 20, max_size |-> 16, min_size |-> 4],
   [target_size |-> 10, max_size |-> 16, min_size |-> 0]}

\* the keyword arguments of the constructor of chunker e
ConstructorArgs(e) ==
  IF e = "gold"
  THEN {[target_size |-> s.target_size, max_size |-> s.max_size, min_size |-> s.min_size,
         prefer_sentence_boundaries |-> TRUE] : s \in ConstructorSizes}
  ELSE ConstructorSizes

\* __init__ of GoldStandardChunker, TTSOptimizedChunker, NaturalSpeechChunker and
\* SmartChunker: the arguments are stored as given
Construct ==
  /\ pc = "new"
  /\ \E args \in ConstructorArgs(engine) : cfg' = args
  /\ pc' = "start"
  /\ UNCHANGED <<engine, text, masking, history, services, paragraphs, pidx, sentences, idx, current_chunk,
                 chunks, long_calls, remaining, break_type, splits, result>>

---------------------------------------------------------------------------
(* chunk_long_sentence called directly, one loop iteration per step         *)

\* chunk_long_sentence(text), lines 234-260: the comma + conjunction split, the short
\* sentence, or the entry of the fallback loop
ChunkLongStart ==
  /\ engine = "gold" /\ pc = "long_start"
  /\ \E parts \in {ConjunctionSplit(text, cfg)} :
        IF parts # <<>>
        THEN result' = parts /\ pc' = "long_done" /\ UNCHANGED <<chunks, remaining>>
        ELSE IF Len(text) <= cfg.max_size
        THEN result' = <<text>> /\ pc' = "long_done" /\ UNCHANGED <<chunks, remaining>>
        ELSE chunks' = <<>> /\ remaining' = text /\ pc' = "long_loop" /\ UNCHANGED result
  /\ UNCHANGED <<engine, cfg, text, masking, history, services, paragraphs, pidx, sentences, idx,
                 current_chunk, long_calls, break_type, splits>>

\* one iteration of "while remaining and len(remaining) > self.max_size", lines 262-273
ChunkLongIteration ==
  /\ engine = "gold" /\ pc = "long_loop"
  /\ Len(remaining) > 0 /\ Len(remaining) > cfg.max_size
  /\ \E after \in {LongSentenceStep(remaining, chunks, cfg.max_size)} :
        /\ remaining' = after.remaining
        /\ chunks' = after.chunks
  /\ UNCHANGED <<engine, cfg, text, pc, masking, history, services, paragraphs, pidx, sentences, idx,
                 current_chunk, long_calls, break_type, splits, result>>

\* the loop ends, lines 275-277: the rest is appended and the list returned
ChunkLongFinish ==
  /\ engine = "gold" /\ pc = "long_loop"
  /\ ~(Len(remaining) > 0 /\ Len(remaining) > cfg.max_size)
  /\ \E out \in {IF Len(remaining) > 0 THEN Append(chunks, remaining) ELSE chunks} :
        chunks' = out /\ result' = out
  /\ pc' = "long_done"
  /\ UNCHANGED <<engine, cfg, text, masking, history, services, paragraphs, pidx, sentences, idx,
                 current_chunk, long_calls, remaining, break_type, splits>>

---------------------------------------------------------------------------
(* say_read.py: split_sentences, _force_split                               *)

\* str.rfind(w, lo, hi) for a string w: the last offset p with lo <= p and
\* p + len(w) <= hi where w occurs, -1 when none
RfindText(s, w, lo, hi) ==
  LetIn({p \in lo..(hi - Len(w)) : Lit(s, p, w, FALSE)},
        LAMBDA hits : IF hits = {} THEN -1 ELSE Max(hits))

\* ('. ', '! ', '? ', '; ', ': ', ', ', ' ')
SentenceCuts == <<<<"."," ">>, <<"!"," ">>, <<"?"," ">>, <<";"," ">>, <<":"," ">>, <<","," ">>, <<" ">>>>

\* a cut taken at the separator wherever it lies
CutAtSeparator(found, i, j, maxlen) == found

\* line 72: "cut = j if cut <= i + maxlen // 3 else cut + 1"
CutOrLimit(found, i, j, maxlen) == IF found <= i + (maxlen \div 3) THEN j ELSE found + 1

\* one iteration of the while loop of split_sentences, lines 70-75: the new cursor
\* and the piece, empty when nothing is appended
SplitSentencesStep(t, i, maxlen) ==
  LetIn(Min({i + maxlen, Len(t)}), LAMBDA j :
  LetIn(Max({RfindText(t, SentenceCuts[k], i, j) : k \in 1..Len(SentenceCuts)}), LAMBDA found :
  LetIn(CutOrLimit(found, i, j, maxlen), LAMBDA cut :
     [cut |-> cut, chunk |-> Strip(Slice(t, i, cut))])))

\* split_sentences from cursor i on; fuel bounds the iterations the model follows
RECURSIVE SplitSentencesFrom(_, _, _, _)
SplitSentencesFrom(t, i, maxlen, fuel) ==
  IF i >= Len(t) \/ fuel = 0 THEN <<>>
  ELSE LetIn(SplitSentencesStep(t, i, maxlen), LAMBDA step :
          (IF step.chunk # <<>> THEN <<step.chunk>> ELSE <<>>)
            \o SplitSentencesFrom(t, step.cut, maxlen, fuel - 1))

split_sentences(t, maxlen) == SplitSentencesFrom(t, 0, maxlen, Len(t))

\* split_sentences(text, maxlen), line 67: "out, i, n = [], 0, len(text)"
SplitSentencesStart ==
  /\ engine = "say_read" /\ pc = "split_start"
  /\ chunks' = <<>>
  /\ cursor' = 0
  /\ pc' = "split_loop"
  /\ UNCHANGED <<engine, cfg, text, result, chunker_locals, masking, history, retrying, gnome,
                 buffering, workers, early_start>>

\* one iteration of "while i < n", lines 68-75
SplitSentencesIteration ==
  /\ engine = "say_read" /\ pc = "split_loop"
  /\ cursor < Len(text)
  /\ \E step \in {SplitSentencesStep(text, cursor, cfg.maxlen)} :
        /\ chunks' = IF step.chunk # <<>> THEN Append(chunks, step.chunk) ELSE chunks
        /\ cursor' = step.cut
  /\ UNCHANGED <<engine, cfg, text, pc, result, chunker_locals, masking, history, retrying, gnome,
                 buffering, workers, early_start>>

\* line 76: "return out"
SplitSentencesReturn ==
  /\ engine = "say_read" /\ pc = "split_loop"
  /\ ~(cursor < Len(text))
  /\ result' = chunks
  /\ pc' = "split_done"
  /\ UNCHANGED <<engine, cfg, text, chunks, cursor, chunker_locals, masking, history, retrying,
                 gnome, buffering, workers, early_start>>

---------------------------------------------------------------------------
(* say_read.py: synth_retry                                                 *)

\* s[:k] and s[k:] as Python cuts them, k = -1 counting from the end
HeadTo(s, k) == IF k < 0 THEN Slice(s, 0, Max({Len(s) + k, 0})) ELSE Slice(s, 0, k)
TailFrom(s, k) == IF k < 0 THEN Slice(s, Max({Len(s) + k, 0}), Len(s)) ELSE Slice(s, k, Len(s))

\* a split that gives the text back whole
Unsplit(s) == <<s>>

\* _force_split, lines 78-91
_force_split(s) ==
  IF Len(s) <= 2 THEN <<s>>
  ELSE LetIn(Len(s) \div 2, LAMBDA mid :
       LetIn(Rfind(s, " ", 0, mid + 1), LAMBDA left_ws :
       LetIn(Find(s, <<" ">>, mid), LAMBDA right_ws :
          IF left_ws = -1 /\ right_ws = -1
          THEN <<HeadTo(s, mid), TailFrom(s, mid)>>
          ELSE LetIn(IF right_ws = -1 \/ (mid - left_ws) <= (right_ws - mid)
                     THEN left_ws ELSE right_ws, LAMBDA split_at :
               LetIn(Strip(HeadTo(s, split_at)), LAMBDA a :
               LetIn(Strip(TailFrom(s, split_at)), LAMBDA b :
                  IF Len(a) < 10 \/ Len(b) < 10
                  THEN <<HeadTo(s, mid), TailFrom(s, mid)>>
                  ELSE <<a, b>>))))))

\* lines 225-232: the parts a failed synthesis is retried on; none means the short
\* silence
RetryParts(t, depth) ==
  IF Len(t) <= 40 \/ depth >= 8
  THEN (IF Len(t) > 20 THEN _force_split(t) ELSE <<>>)
  ELSE LetIn(split_sentences(t, Max({60, Len(t) \div 2})), LAMBDA parts :
          IF Len(parts) < 2 THEN _force_split(t) ELSE parts)

\* k.create(text, ...): the engine raises on the texts longer than cfg.limit
Raises(t) == Len(t) > cfg.limit

\* what k.create returns, and line 228: np.zeros(2400), 24000, True
Synthesized == [audio |-> <<"speech">>, sr |-> 24000, split |-> FALSE]
ShortSilence == [audio |-> <<"silence">>, sr |-> 24000, split |-> TRUE]

\* the call on top of the stack returns value: the caller appends it (lines 236-238),
\* or the outermost call ends
Returned(value) ==
  IF Len(frames) = 1
  THEN /\ frames' = <<>>
       /\ result' = value
       /\ pc' = "retry_done"
  ELSE /\ frames' = [SubSeq(frames, 1, Len(frames) - 1) EXCEPT
                       ![Len(frames) - 1].audio = Append(@, value.audio),
                       ![Len(frames) - 1].sr = value.sr]
       /\ UNCHANGED <<result, pc>>

\* lines 217-232: the synthesis is tried; on an exception the parts are chosen
SynthTry ==
  /\ engine = "say_read" /\ pc = "retry"
  /\ frames[Len(frames)].at = "try"
  /\ \E top \in {frames[Len(frames)]} :
        IF ~Raises(top.text) THEN Returned(Synthesized)
        ELSE \E parts \in {RetryParts(top.text, top.depth)} :
                IF parts = <<>> THEN Returned(ShortSilence)
                ELSE /\ frames' = [frames EXCEPT ![Len(frames)].at = "loop",
                                                 ![Len(frames)].parts = parts]
                     /\ UNCHANGED <<result, pc>>
  /\ UNCHANGED <<engine, cfg, text, chunks, chunker_locals, masking, history, reading, gnome,
                 buffering, workers, early_start>>

\* lines 234-239: "for sub in parts: synth_retry(k, sub, ..., depth + 1)", then
\* "return np.concatenate(audio), sr, True, total_time"
SynthLoop ==
  /\ engine = "say_read" /\ pc = "retry"
  /\ frames[Len(frames)].at = "loop"
  /\ \E top \in {frames[Len(frames)]} :
        IF Len(top.audio) < Len(top.parts)
        THEN /\ frames' = Append(frames, [text |-> top.parts[Len(top.audio) + 1],
                                          depth |-> top.depth + 1, at |-> "try",
                                          parts |-> <<>>, audio |-> <<>>, sr |-> None])
             /\ UNCHANGED <<result, pc>>
        ELSE Returned([audio |-> Concat(top.audio), sr |-> top.sr, split |-> TRUE])
  /\ UNCHANGED <<engine, cfg, text, chunks, chunker_locals, masking, history, reading, gnome,
                 buffering, workers, early_start>>

\* synth_retry(k, text, voice, lang, debug): depth = 0
SynthCall ==
  /\ engine = "say_read" /\ pc = "retry_start"
  /\ frames' = <<[text |-> text, depth |-> 0, at |-> "try", parts |-> <<>>, audio |-> <<>>,
                  sr |-> None]>>
  /\ pc' = "retry"
  /\ UNCHANGED <<engine, cfg, text, chunks, result, chunker_locals, masking, history, reading, gnome,
                 buffering, workers, early_start>>

---------------------------------------------------------------------------
(* GnomeReaderControl: the D-Bus methods run one at a time on the GLib main *)
(* loop.  A session keeps the fields the methods read or write; source,    *)
(* title and start_time are written once and never read by them.           *)
(* reading_process is None throughout: nothing assigns it.                  *)

\* what a D-Bus method leaves alone besides the service's own fields
OutsideGnome == <<engine, cfg, text, pc, chunks, result, chunker_locals, masking, history,
                  reading, retrying, buffering, workers, early_start>>

\* "self.current_session = None"; the state file that does not exist holds the same
NoSession == [session |-> None]

\* _save_state: json.dump(self.current_session, f)
SavedState(session) == session

\* start_reading, lines 50-84
start_reading ==
  /\ engine = "gnome" /\ pc = "serving"
  /\ \E total_chunks \in 1..cfg.max_chunk :
     \E session \in {[total_chunks |-> total_chunks, current_chunk |-> 0, status |-> "playing"]} :
        /\ current_session' = session
        /\ state_file' = SavedState(session)
  /\ is_paused' = FALSE
  /\ last_call' = "start_reading"
  /\ returned' = TRUE
  /\ UNCHANGED OutsideGnome

\* a guard that looks at the session only
SessionOnly == current_session # NoSession

\* line 90: "if self.current_session and not self.is_paused"
CanPause == current_session # NoSession /\ ~is_paused

\* line 113: "if self.current_session and self.is_paused"
CanResume == current_session # NoSession /\ is_paused

\* pause_reading, lines 86-107
pause_reading ==
  /\ engine = "gnome" /\ pc = "serving"
  /\ IF CanPause
     THEN /\ is_paused' = TRUE
          /\ \E session \in {[current_session EXCEPT !.status = "paused"]} :
                /\ current_session' = session
                /\ state_file' = SavedState(session)
          /\ returned' = TRUE
     ELSE /\ returned' = FALSE
          /\ UNCHANGED <<current_session, is_paused, state_file>>
  /\ last_call' = "pause_reading"
  /\ UNCHANGED OutsideGnome

\* resume_reading, lines 109-130
resume_reading ==
  /\ engine = "gnome" /\ pc = "serving"
  /\ IF CanResume
     THEN /\ is_paused' = FALSE
          /\ \E session \in {[current_session EXCEPT !.status = "playing"]} :
                /\ current_session' = session
                /\ state_file' = SavedState(session)
          /\ returned' = TRUE
     ELSE /\ returned' = FALSE
          /\ UNCHANGED <<current_session, is_paused, state_file>>
  /\ last_call' = "resume_reading"
  /\ UNCHANGED OutsideGnome

\* stop_reading, lines 132-159; _clear_state unlinks the file
stop_reading ==
  /\ engine = "gnome" /\ pc = "serving"
  /\ IF current_session # NoSession
     THEN /\ current_session' = NoSession
          /\ is_paused' = FALSE
          /\ state_file' = NoSession
          /\ returned' = TRUE
     ELSE /\ returned' = FALSE
          /\ UNCHANGED <<current_session, is_paused, state_file>>
  /\ last_call' = "stop_reading"
  /\ UNCHANGED OutsideGnome

\* update_progress, lines 161-178
update_progress ==
  /\ engine = "gnome" /\ pc = "serving"
  /\ IF current_session # NoSession
     THEN /\ \E chunk_number \in 0..cfg.max_chunk :
             \E session \in {[current_session EXCEPT !.current_chunk = chunk_number]} :
                /\ current_session' = session
                /\ state_file' = SavedState(session)
          /\ returned' = TRUE
          /\ UNCHANGED is_paused
     ELSE /\ returned' = FALSE
          /\ UNCHANGED <<current_session, is_paused, state_file>>
  /\ last_call' = "update_progress"
  /\ UNCHANGED OutsideGnome

\* the service process ends without its signal handler (it is killed, or the machine
\* goes down) and is started again: __init__, lines 34-46, then run(), line 294,
\* which calls _load_state, lines 281-289
Restart ==
  /\ engine = "gnome" /\ pc = "serving"
  /\ current_session' = state_file
  /\ is_paused' = FALSE
  /\ last_call' = "run"
  /\ returned' = None
  /\ UNCHANGED state_file
  /\ UNCHANGED OutsideGnome

---------------------------------------------------------------------------
(* continuous_audio.py: AudioBuffer under SmartAudioStreamer.stream_buffered. *)
(* The generator thread runs generate_audio; the calling thread iterates     *)
(* get_chunks.  A step is one operation on the queue or on the flag; audio   *)
(* chunk k is the number k.                                                  *)

\* what the two threads leave alone
OutsideBuffer == <<engine, cfg, text, pc, chunks, result, chunker_locals, masking, history,
                   reading, retrying, gnome, workers, early_start>>

\* queue.Queue(maxsize=10), line 26
QueueMaxSize == 10

\* the None that mark_finished puts behind the chunks, line 38; chunks are 1, 2, ...
EndOfAudio == 0

\* generate_audio, lines 191-197, and add_chunk, lines 30-33: the next chunk of the
\* audio_generator is put into the queue; put blocks while the queue is full
GenerateChunk ==
  /\ engine = "buffered" /\ generator_pc = "generate"
  /\ Len(accepted) < cfg.chunks
  /\ ~finished_generating
  /\ Len(audio_queue) < QueueMaxSize
  /\ audio_queue' = Append(audio_queue, Len(accepted) + 1)
  /\ accepted' = Append(accepted, Len(accepted) + 1)
  /\ UNCHANGED <<finished_generating, yielded, generator_pc, playback_pc>>
  /\ UNCHANGED OutsideBuffer

\* the for loop of generate_audio ends: the audio_generator is exhausted, or it
\* raises, or put(timeout=30) raises queue.Full on a full queue; the finally clause
\* calls mark_finished, whose line 37 sets the flag
GenerationEnds ==
  /\ engine = "buffered" /\ generator_pc = "generate"
  /\ finished_generating' = TRUE
  /\ generator_pc' = "sentinel"
  /\ UNCHANGED <<audio_queue, accepted, yielded, playback_pc>>
  /\ UNCHANGED OutsideBuffer

\* mark_finished, line 38: "self.queue.put(None)", blocking while the queue is full
PutSentinel ==
  /\ engine = "buffered" /\ generator_pc = "sentinel"
  /\ Len(audio_queue) < QueueMaxSize
  /\ audio_queue' = Append(audio_queue, EndOfAudio)
  /\ generator_pc' = "done"
  /\ UNCHANGED <<finished_generating, accepted, yielded, playback_pc>>
  /\ UNCHANGED OutsideBuffer

\* get_chunks, lines 44-48: get returns the head of the queue; None ends the
\* generator, a chunk is yielded
GetChunk ==
  /\ engine = "buffered" /\ playback_pc = "get"
  /\ Len(audio_queue) > 0
  /\ audio_queue' = Tail(audio_queue)
  /\ IF Head(audio_queue) = EndOfAudio
     THEN playback_pc' = "ended" /\ UNCHANGED yielded
     ELSE yielded' = Append(yielded, Head(audio_queue)) /\ UNCHANGED playback_pc
  /\ UNCHANGED <<finished_generating, accepted, generator_pc>>
  /\ UNCHANGED OutsideBuffer

\* get_chunks, lines 44 and 49: the queue stayed empty for the second of the
\* timeout and get raises queue.Empty
GetTimesOut ==
  /\ engine = "buffered" /\ playback_pc = "get"
  /\ Len(audio_queue) = 0
  /\ playback_pc' = "empty"
  /\ UNCHANGED <<audio_queue, finished_generating, accepted, yielded, generator_pc>>
  /\ UNCHANGED OutsideBuffer

\* get_chunks, lines 50-52: "if self.finished_generating: break", else continue
CheckFinished ==
  /\ engine = "buffered" /\ playback_pc = "empty"
  /\ playback_pc' = IF finished_generating THEN "ended" ELSE "get"
  /\ UNCHANGED <<audio_queue, finished_generating, accepted, yielded, generator_pc>>
  /\ UNCHANGED OutsideBuffer

---------------------------------------------------------------------------
(* simple_parallel.py: SimpleParallelTTS.process_chunks_parallel and the     *)
(* _tts_worker threads.  A step is one operation on a queue.  The item       *)
(* (i, chunk_text) is the index i, the result (chunk_index, audio_file) the  *)
(* index chunk_index; the None of either queue is NoItem.                    *)

\* what process_chunks_parallel and its workers leave alone
OutsideParallel == <<engine, cfg, text, pc, chunks, result, chunker_locals, masking, history,
                     reading, retrying, gnome, buffering, early_start>>

\* None: the shutdown signal of line 83, the failed chunk of lines 140 and 148
NoItem == -1

\* line 65: "actual_workers = min(self.max_workers, len(text_chunks))"
actual_workers == Min({cfg.max_workers, cfg.chunks})

\* the mutant of the sort: the order in which the results came in
CollectionOrder(files) == files

\* line 103: "audio_files.sort(key=lambda x: x[0])", a stable sort by index
RECURSIVE SortByIndex(_)
SortByIndex(files) ==
  IF Len(files) <= 1 THEN files
  ELSE LetIn(SortByIndex(SubSeq(files, 1, Len(files) - 1)), LAMBDA sorted :
       LetIn(files[Len(files)], LAMBDA last :
       LetIn(Cardinality({k \in 1..Len(sorted) : sorted[k] <= last}), LAMBDA n :
         SubSeq(sorted, 1, n) \o <<last>> \o SubSeq(sorted, n + 1, Len(sorted)))))

\* lines 61-75: the worker threads are started
StartWorkers ==
  /\ engine = "parallel" /\ main_pc = "start"
  /\ worker' = [w \in 1..actual_workers |-> [pc |-> "get", item |-> NoItem, signals |-> 0]]
  /\ main_pc' = IF cfg.chunks = 0 THEN "join" ELSE "queue"
  /\ UNCHANGED <<text_queue, result_queue, taken, synthesized, audio_files, results_collected>>
  /\ UNCHANGED OutsideParallel

\* the chunks put into text_queue so far
Queued == Cardinality({k \in 1..Len(text_queue) : text_queue[k] # NoItem}) + Len(taken)

\* lines 78-79: "self.text_queue.put((i, chunk_text))"
QueueChunk ==
  /\ engine = "parallel" /\ main_pc = "queue"
  /\ text_queue' = Append(text_queue, Queued)
  /\ main_pc' = IF Queued + 1 = cfg.chunks THEN "signal" ELSE "queue"
  /\ UNCHANGED <<result_queue, worker, taken, synthesized, audio_files, results_collected>>
  /\ UNCHANGED OutsideParallel

\* the shutdown signals put into text_queue so far
Signalled ==
  LetIn(Cardinality({k \in 1..Len(text_queue) : text_queue[k] = NoItem}), LAMBDA waiting :
  LetIn(Cardinality({w \in 1..Len(worker) : worker[w].signals = 1}), LAMBDA received :
    waiting + received))

\* lines 82-83: "self.text_queue.put(None)", once per worker
SignalCompletion ==
  /\ engine = "parallel" /\ main_pc = "signal"
  /\ text_queue' = Append(text_queue, NoItem)
  /\ main_pc' = IF Signalled + 1 = actual_workers THEN "collect" ELSE "signal"
  /\ UNCHANGED <<result_queue, worker, taken, synthesized, audio_files, results_collected>>
  /\ UNCHANGED OutsideParallel

\* lines 87-93: a result is taken from result_queue; a None is dropped and not
\* counted; the loop ends when as many results as chunks are counted
CollectResult ==
  /\ engine = "parallel" /\ main_pc = "collect"
  /\ Len(result_queue) > 0
  /\ result_queue' = Tail(result_queue)
  /\ \E got \in {Head(result_queue)} :
       IF got # NoItem
       THEN /\ audio_files' = Append(audio_files, got)
            /\ results_collected' = results_collected + 1
            /\ main_pc' = IF results_collected + 1 < cfg.chunks THEN "collect" ELSE "join"
       ELSE UNCHANGED <<audio_files, results_collected, main_pc>>
  /\ UNCHANGED <<text_queue, worker, taken, synthesized>>
  /\ UNCHANGED OutsideParallel

\* a worker that holds a chunk, or can still take one, puts a result within
\* tts_timeout (line 188) and a second (line 124)
ResultComing ==
  \/ \E w \in 1..Len(worker) : worker[w].pc = "generate"
  \/ \E k \in 1..Len(text_queue) : text_queue[k] # NoItem

\* lines 89 and 94-96: result_queue stayed empty for tts_timeout + 5 seconds and
\* get raises queue.Empty; the loop breaks
CollectTimesOut ==
  /\ engine = "parallel" /\ main_pc = "collect"
  /\ Len(result_queue) = 0
  /\ ~ResultComing
  /\ main_pc' = "join"
  /\ UNCHANGED <<text_queue, result_queue, worker, taken, synthesized, audio_files,
                 results_collected>>
  /\ UNCHANGED OutsideParallel

\* lines 99-116: the workers are joined, for five seconds each at most, the
\* results are sorted and returned
JoinAndSort ==
  /\ engine = "parallel" /\ main_pc = "join"
  /\ audio_files' = SortByIndex(audio_files)
  /\ main_pc' = "returned"
  /\ UNCHANGED <<text_queue, result_queue, worker, taken, synthesized, results_collected>>
  /\ UNCHANGED OutsideParallel

\* _tts_worker, lines 124-129: get takes the head of text_queue, waiting while it
\* is empty (queue.Empty after a second, line 144, leads back to the get); None
\* ends the worker
WorkerGet ==
  \E w \in 1..Len(worker) :
    /\ engine = "parallel" /\ worker[w].pc = "get"
    /\ Len(text_queue) > 0
    /\ text_queue' = Tail(text_queue)
    /\ \E item \in {Head(text_queue)} :
         IF item = NoItem
         THEN /\ worker' = [worker EXCEPT ![w] = [pc |-> "finished", item |-> NoItem,
                                                   signals |-> worker[w].signals + 1]]
              /\ UNCHANGED taken
         ELSE /\ worker' = [worker EXCEPT ![w] = [pc |-> "generate", item |-> item,
                                                   signals |-> worker[w].signals]]
              /\ taken' = Append(taken, <<w, item>>)
    /\ UNCHANGED <<result_queue, synthesized, audio_files, results_collected, main_pc>>
    /\ UNCHANGED OutsideParallel

\* _tts_worker, lines 133-148: _generate_audio_file returns a file or None, or
\* raises; the result or None is put into result_queue
WorkerGenerate ==
  \E w \in 1..Len(worker) :
    /\ engine = "parallel" /\ worker[w].pc = "generate"
    /\ \E audio_file \in BOOLEAN :
         /\ result_queue' = Append(result_queue, IF audio_file THEN worker[w].item ELSE NoItem)
         /\ synthesized' = IF audio_file THEN synthesized \cup {worker[w].item} ELSE synthesized
    /\ worker' = [worker EXCEPT ![w] = [pc |-> "get", item |-> NoItem,
                                         signals |-> worker[w].signals]]
    /\ UNCHANGED <<text_queue, taken, audio_files, results_collected, main_pc>>
    /\ UNCHANGED OutsideParallel

---------------------------------------------------------------------------
(* early_start_player.py: EarlyStartPlayer.  Three threads: the caller of    *)
(* start_early_playback, EarlyPlayback running _playback_loop, BackgroundTTS *)
(* running _background_processing.  A step is one operation on audio_queue   *)
(* or one blocking call.  The audio file of chunk i of text_chunks is the    *)
(* number i, counted from 0.                                                 *)

\* what the player's threads leave alone
OutsidePlayer == <<engine, cfg, text, pc, chunks, result, chunker_locals, masking, history,
                   reading, retrying, gnome, buffering, workers>>

\* the None that ends the queue, lines 102 and 204
EndSignal == -1

\* line 65: the number of chunks in text_chunks[:self.initial_batch_size]
ImmediateCount == Min({cfg.initial_batch_size, cfg.chunks})

\* the mutant of the order: the files of chunks lo .. hi-1 in ok, last one first
RECURSIVE ProcessedReversed(_, _, _)
ProcessedReversed(lo, hi, ok) ==
  IF lo >= hi THEN <<>>
  ELSE ProcessedReversed(lo + 1, hi, ok) \o (IF lo \in ok THEN <<lo>> ELSE <<>>)

\* lines 70 and 192: what process_chunks_parallel returns for the chunks
\* lo .. hi-1 of text_chunks when those in ok are synthesized: their files by
\* ascending index (simple_parallel.py, line 103)
RECURSIVE ProcessedInOrder(_, _, _)
ProcessedInOrder(lo, hi, ok) ==
  IF lo >= hi THEN <<>>
  ELSE (IF lo \in ok THEN <<lo>> ELSE <<>>) \o ProcessedInOrder(lo + 1, hi, ok)

\* lines 65-70: the immediate batch is processed before anything is played
ProcessImmediate ==
  /\ engine = "early_start" /\ player_pc = "start"
  /\ \E ok \in SUBSET (0..(ImmediateCount - 1)) :
       to_queue' = ProcessedInOrder(0, ImmediateCount, ok)
  /\ player_pc' = "play"
  /\ UNCHANGED <<play_queue, playing, stopped, enqueued, played, background_pc, loop_pc>>
  /\ UNCHANGED OutsidePlayer

\* lines 79-84: the playback thread is started
StartPlayback ==
  /\ engine = "early_start" /\ player_pc = "play"
  /\ playing' = TRUE
  /\ loop_pc' = "loop"
  /\ player_pc' = "queue"
  /\ UNCHANGED <<play_queue, stopped, to_queue, enqueued, played, background_pc>>
  /\ UNCHANGED OutsidePlayer

\* lines 87-88: "self.audio_queue.put(audio_file)"
QueueImmediate ==
  /\ engine = "early_start" /\ player_pc = "queue"
  /\ Len(to_queue) > 0
  /\ play_queue' = Append(play_queue, Head(to_queue))
  /\ enqueued' = Append(enqueued, Head(to_queue))
  /\ to_queue' = Tail(to_queue)
  /\ UNCHANGED <<playing, stopped, played, player_pc, background_pc, loop_pc>>
  /\ UNCHANGED OutsidePlayer

\* lines 92-99 and 104: there are background chunks, the background thread is started
StartBackground ==
  /\ engine = "early_start" /\ player_pc = "queue"
  /\ Len(to_queue) = 0
  /\ cfg.chunks > ImmediateCount
  /\ background_pc' = "process"
  /\ player_pc' = "returned"
  /\ UNCHANGED <<play_queue, playing, stopped, to_queue, enqueued, played, loop_pc>>
  /\ UNCHANGED OutsidePlayer

\* lines 100-104: there are none, "self.audio_queue.put(None)"
SignalEnd ==
  /\ engine = "early_start" /\ player_pc = "queue"
  /\ Len(to_queue) = 0
  /\ cfg.chunks <= ImmediateCount
  /\ play_queue' = Append(play_queue, EndSignal)
  /\ enqueued' = Append(enqueued, EndSignal)
  /\ player_pc' = "returned"
  /\ UNCHANGED <<playing, stopped, to_queue, played, background_pc, loop_pc>>
  /\ UNCHANGED OutsidePlayer

\* _background_processing, lines 189-194: the remaining chunks are processed, or
\* an exception is raised and logged (lines 200-201)
BackgroundProcess ==
  /\ engine = "early_start" /\ background_pc = "process"
  /\ \/ \E ok \in SUBSET (ImmediateCount..(cfg.chunks - 1)) :
          /\ to_queue' = ProcessedInOrder(ImmediateCount, cfg.chunks, ok)
          /\ background_pc' = "queue"
     \/ /\ to_queue' = <<>>
        /\ background_pc' = "finally"
  /\ UNCHANGED <<play_queue, playing, stopped, enqueued, played, player_pc, loop_pc>>
  /\ UNCHANGED OutsidePlayer

\* _background_processing, lines 197-198: "self.audio_queue.put(audio_file)"
BackgroundQueue ==
  /\ engine = "early_start" /\ background_pc = "queue"
  /\ Len(to_queue) > 0
  /\ play_queue' = Append(play_queue, Head(to_queue))
  /\ enqueued' = Append(enqueued, Head(to_queue))
  /\ to_queue' = Tail(to_queue)
  /\ UNCHANGED <<playing, stopped, played, player_pc, background_pc, loop_pc>>
  /\ UNCHANGED OutsidePlayer

\* _background_processing, lines 202-204: "finally: self.audio_queue.put(None)"
BackgroundFinally ==
  /\ engine = "early_start"
  /\ \/ background_pc = "queue" /\ Len(to_queue) = 0
     \/ background_pc = "finally"
  /\ play_queue' = Append(play_queue, EndSignal)
  /\ enqueued' = Append(enqueued, EndSignal)
  /\ background_pc' = "done"
  /\ UNCHANGED <<playing, stopped, to_queue, played, player_pc, loop_pc>>
  /\ UNCHANGED OutsidePlayer

\* _playback_loop, lines 111-131: while playing and not stopped, get takes the
\* head of audio_queue, waiting while it is empty (queue.Empty after ten seconds,
\* lines 133-137, leads back to the loop test while playing); None ends the
\* loop, a file is played, well or not, and removed
PlaybackGet ==
  /\ engine = "early_start" /\ loop_pc = "loop"
  /\ playing /\ ~stopped
  /\ Len(play_queue) > 0
  /\ play_queue' = Tail(play_queue)
  /\ IF Head(play_queue) = EndSignal
     THEN loop_pc' = "finished" /\ UNCHANGED played
     ELSE played' = Append(played, Head(play_queue)) /\ UNCHANGED loop_pc
  /\ UNCHANGED <<playing, stopped, to_queue, enqueued, player_pc, background_pc>>
  /\ UNCHANGED OutsidePlayer

\* _playback_loop, lines 111 and 133-135: the loop test fails, or get raises
\* queue.Empty and playing is false
PlaybackLeaves ==
  /\ engine = "early_start" /\ loop_pc = "loop"
  /\ ~(playing /\ ~stopped)
  /\ loop_pc' = "finished"
  /\ UNCHANGED <<play_queue, playing, stopped, to_queue, enqueued, played, player_pc,
                 background_pc>>
  /\ UNCHANGED OutsidePlayer

\* stop, lines 214-227: the flags are set and the queue is emptied
stop ==
  /\ engine = "early_start" /\ ~stopped
  /\ stopped' = TRUE
  /\ playing' = FALSE
  /\ play_queue' = <<>>
  /\ UNCHANGED <<to_queue, enqueued, played, player_pc, background_pc, loop_pc>>
  /\ UNCHANGED OutsidePlayer


---------------------------------------------------------------------------
(* Inputs and specifications                                               *)

\* the input texts are the concatenations of at most MaxTokens tokens
MaxTokens == 3

Vocabulary ==
  <<<<"G","o"," ","o","n","."," ">>, <<"H","i","!"," ">>, <<"i","t"," ","i","s"," ">>, <<"D","r","."," ","H","u"," ">>, <<"s","o",";"," ","n","a","m","e","l","y"," ">>, <<"u","p",","," ","o","r"," ">>, <<"(","a",")"," ">>, <<"U",".","S","."," ">>, <<" ">>>>

Inputs ==
  {Concat(ts) : ts \in UNION {[1..n -> {Vocabulary[k] : k \in 1..Len(Vocabulary)}] : n \in 0..MaxTokens}}

\* GoldStandardChunker(target_size, max_size, prefer_sentence_boundaries, min_chunk_size)
GoldConfigs ==
  {[target_size |-> 10, max_size |-> 16, min_size |-> 4, prefer_sentence_boundaries |-> TRUE],
   [target_size |-> 8, max_size |-> 13, min_size |-> 3, prefer_sentence_boundaries |-> TRUE],
   [target_size |-> 10, max_size |-> 16, min_size |-> 4, prefer_sentence_boundaries |-> FALSE]}

\* nothing outside the chunkers has run
IdleServices ==
  /\ cursor = 0
  /\ frames = <<>>
  /\ current_session = [session |-> None]
  /\ is_paused = FALSE
  /\ state_file = [session |-> None]
  /\ last_call = None
  /\ returned = None
  /\ audio_queue = <<>>
  /\ finished_generating = FALSE
  /\ accepted = <<>>
  /\ yielded = <<>>
  /\ generator_pc = "generate"
  /\ playback_pc = "get"
  /\ text_queue = <<>>
  /\ result_queue = <<>>
  /\ worker = <<>>
  /\ taken = <<>>
  /\ synthesized = {}
  /\ audio_files = <<>>
  /\ results_collected = 0
  /\ main_pc = "start"
  /\ play_queue = <<>>
  /\ playing = FALSE
  /\ stopped = FALSE
  /\ to_queue = <<>>
  /\ enqueued = <<>>
  /\ played = <<>>
  /\ player_pc = "start"
  /\ background_pc = "none"
  /\ loop_pc = "none"

\* chunker e, constructed with one of configs, about to be called on one of texts
InitInstance(e, configs, texts) ==
  /\ engine = e
  /\ cfg \in configs
  /\ text \in texts
  /\ paragraphs = <<>>
  /\ pidx = 1
  /\ sentences = <<>>
  /\ idx = 1
  /\ current_chunk = <<>>
  /\ chunks = <<>>
  /\ long_calls = <<>>
  /\ remaining = <<>>
  /\ break_type = "none"
  /\ splits = <<>>
  /\ result = <<>>
  /\ protected = <<>>
  /\ protection = <<>>
  /\ restored = <<>>
  /\ history = <<>>
  /\ IdleServices

\* a call of the chunking method of chunker e
InitCall(e, configs, texts) ==
  /\ InitInstance(e, configs, texts)
  /\ pc = "start"
  /\ lang = "none"

InitEngine(e, configs) == InitCall(e, configs, Inputs)

GoldInit == InitEngine("gold", GoldConfigs)
GoldNext == GoldStart \/ GoldSentence \/ GoldFinish
SpecGold == GoldInit /\ [][GoldNext]_vars

\* TTSOptimizedChunker(target_size, max_size, min_size)
TtsConfigs ==
  {[target_size |-> 10, max_size |-> 16, min_size |-> 4],
   [target_size |-> 8, max_size |-> 13, min_size |-> 3],
   [target_size |-> 8, max_size |-> 13, min_size |-> 5]}

TtsInit == InitEngine("tts", TtsConfigs)
TtsNext == TtsStart \/ TtsParagraph \/ TtsSentence \/ TtsSplitLong \/ TtsParagraphEnd \/ TtsFinish
SpecTts == TtsInit /\ [][TtsNext]_vars

\* NaturalSpeechChunker(target_size, max_size, min_size)
NaturalConfigs ==
  {[target_size |-> 10, max_size |-> 16, min_size |-> 4],
   [target_size |-> 8, max_size |-> 13, min_size |-> 5]}

NaturalInit == InitEngine("natural", NaturalConfigs)
NaturalNext ==
  NaturalStart \/ NaturalParagraph \/ NaturalSentence \/ NaturalParagraphEnd \/ NaturalFinish
SpecNatural == NaturalInit /\ [][NaturalNext]_vars

\* SmartChunker(target_size, max_size, min_size)
SmartConfigs ==
  {[target_size |-> 10, max_size |-> 16, min_size |-> 4],
   [target_size |-> 8, max_size |-> 13, min_size |-> 3]}

SmartInit == InitEngine("smart", SmartConfigs)
SmartNext == SmartStart \/ SmartParagraph \/ SmartSentence \/ SmartParagraphEnd \/ SmartFinish
SpecSmart == SmartInit /\ [][SmartNext]_vars

\* a call of any of the four chunkers
Init == GoldInit \/ TtsInit \/ NaturalInit \/ SmartInit
Next == GoldNext \/ TtsNext \/ NaturalNext \/ SmartNext
Spec == Init /\ [][Next]_vars

\* texts without punctuation and without whitespace: at most MaxWordTokens pieces of
\* letters
MaxWordTokens == 3

WordVocabulary ==
  <<<<"a","b","c","d","e">>, <<"f","g","h","i","j","k","l","m">>, <<"x">>, <<"Y","z">>>>

WordInputs ==
  {Concat(ts) : ts \in UNION {[1..n -> {WordVocabulary[k] : k \in 1..Len(WordVocabulary)}] : n \in 0..MaxWordTokens}}

\* a call of GoldStandardChunker on a single unbroken word
GoldWordsInit == InitCall("gold", GoldConfigs, WordInputs)
SpecGoldWords == GoldWordsInit /\ [][GoldNext]_vars

\* the pieces of the mixed-punctuation scenario; the texts are the concatenations
\* of at most MaxScenarioParts of them
MaxScenarioParts == 4

ScenarioVocabulary ==
  <<<<"G","r","e","a","t"," ","w","o","r","k","!"," ">>, <<"(","N","i","c","e"," ","j","o","b",".",")"," ">>, <<"H","o","w","e","v","e","r",","," ","f","i","x"," ","t","h","e"," ","b","u","g",";"," ">>, <<"s","p","e","c","i","f","i","c","a","l","l","y",","," ","t","h","e"," ","t","i","m","e","o","u","t",".">>>>

ScenarioInputs ==
  {Concat(ts) : ts \in UNION {[1..n -> {ScenarioVocabulary[k] : k \in 1..Len(ScenarioVocabulary)}] : n \in 0..MaxScenarioParts}}

\* GoldStandardChunker(): the default thresholds
DefaultGoldConfig ==
  [target_size |-> 150, max_size |-> 300, min_size |-> 40, prefer_sentence_boundaries |-> TRUE]

\* a call of a default GoldStandardChunker on a text of the scenario
GoldScenarioInit == InitCall("gold", {DefaultGoldConfig}, ScenarioInputs)
SpecGoldScenario == GoldScenarioInit /\ [][GoldNext]_vars

\* direct calls of protect_abbreviations and restore_abbreviations on one chunker
MaxMaskTokens == 3
MaskVocabulary == <<<<"D","r","."," ","H","u"," ">>, <<"N","A","S","A"," ">>, <<"U",".","S","."," ">>, <<"E","E",".","U","U","."," ">>, <<"e","t","c","."," ">>, <<"9",":","0","5"," ","a",".","m","."," ","G","o"," ">>, <<"_","_","A","B","B","R","E","V","_","0","_","0","_","_"," ">>, <<"i","t"," ","i","s"," ">>>>
MaskInputs == {Concat(ts) : ts \in UNION {[1..n -> {MaskVocabulary[k] : k \in 1..Len(MaskVocabulary)}] : n \in 0..MaxMaskTokens}}

ProtectInit ==
  /\ InitInstance("gold", {DefaultGoldConfig}, MaskInputs)
  /\ pc = "protect"
  /\ lang \in {"english", "spanish"}
ProtectNext == Protect \/ Restore
SpecProtect == ProtectInit /\ [][ProtectNext]_vars


\* a chunker of any of the four classes is constructed, then called once
MaxConstructTokens == 2
ConstructInputs ==
  {Concat(ts) : ts \in UNION {[1..n -> {Vocabulary[k] : k \in 1..Len(Vocabulary)}] : n \in 0..MaxConstructTokens}}

ConstructInit ==
  /\ \E e \in {"gold", "tts", "natural", "smart"} : InitInstance(e, {NoInstance}, ConstructInputs)
  /\ pc = "new"
  /\ lang = "none"
ConstructNext == Construct \/ GoldNext \/ TtsNext \/ NaturalNext \/ SmartNext
SpecConstruct == ConstructInit /\ [][ConstructNext]_vars

\* one GoldStandardChunker called MaxCalls times in a row
MaxCalls == 3
MaxReuseTokens == 2
ReuseVocabulary == <<<<"G","o"," ","o","n","."," ">>, <<"s","o",";"," ","n","a","m","e","l","y"," ">>, <<"u","p",","," ","o","r"," ">>>>
ReuseInputs ==
  {Concat(ts) : ts \in UNION {[1..n -> {ReuseVocabulary[k] : k \in 1..Len(ReuseVocabulary)}] : n \in 0..MaxReuseTokens}}

\* the caller calls gold_standard_chunk_text again on the same chunker: a new frame
\* with the new text; self is the same object
GoldCall ==
  /\ engine = "gold" /\ pc = "done"
  /\ Len(history) + 1 < MaxCalls
  /\ history' = Append(history, [text |-> text, result |-> result])
  /\ \E t \in ReuseInputs : text' = t
  /\ chunks' = NewLocals.chunks
  /\ current_chunk' = NewLocals.current_chunk
  /\ sentences' = <<>>
  /\ idx' = 1
  /\ long_calls' = <<>>
  /\ result' = <<>>
  /\ pc' = "start"
  /\ UNCHANGED <<engine, cfg, masking, services, paragraphs, pidx, remaining, break_type, splits>>

GoldReuseInit == InitCall("gold", GoldConfigs, ReuseInputs)
GoldReuseNext == GoldNext \/ GoldCall
SpecGoldReuse == GoldReuseInit /\ [][GoldReuseNext]_vars

\* chunk_long_sentence called on a sentence, with max_size from 1 on
MaxSentenceTokens == 4
SentenceVocabulary == <<<<" ">>, <<"a","b"," ">>, <<"u","p",","," ","o","r"," ">>, <<"s","o",";"," ">>, <<"a","b","c","d","e","f","g","h">>>>
SentenceInputs ==
  {Concat(ts) : ts \in UNION {[1..n -> {SentenceVocabulary[k] : k \in 1..Len(SentenceVocabulary)}] : n \in 0..MaxSentenceTokens}}
LongSentenceConfigs ==
  {[target_size |-> 1, max_size |-> 1, min_size |-> 0, prefer_sentence_boundaries |-> TRUE],
   [target_size |-> 3, max_size |-> 4, min_size |-> 1, prefer_sentence_boundaries |-> TRUE],
   [target_size |-> 30, max_size |-> 7, min_size |-> 4, prefer_sentence_boundaries |-> TRUE]}

LongSentenceInit ==
  /\ InitInstance("gold", LongSentenceConfigs, SentenceInputs)
  /\ pc = "long_start"
  /\ lang = "none"
LongSentenceNext == ChunkLongStart \/ ChunkLongIteration \/ ChunkLongFinish
SpecLongSentence == LongSentenceInit /\ [][LongSentenceNext]_vars
\* the call runs on: the interpreter takes the next step of the loop
FairSpecLongSentence == SpecLongSentence /\ WF_vars(LongSentenceNext)

\* say_read.split_sentences(text, maxlen) with maxlen from 1 on
MaxReadTokens == 4
ReadVocabulary == <<<<"a","b","."," ">>, <<"c",","," ">>, <<" "," ">>, <<"d","e","f","g","h","i">>, <<"j">>>>
ReadInputs ==
  {Concat(ts) : ts \in UNION {[1..n -> {ReadVocabulary[k] : k \in 1..Len(ReadVocabulary)}] : n \in 0..MaxReadTokens}}
MaxLens == {1, 2, 3, 5, 9}

SplitSentencesInit ==
  /\ InitInstance("say_read", {[maxlen |-> m] : m \in MaxLens}, ReadInputs)
  /\ pc = "split_start"
  /\ lang = "none"
SplitSentencesNext == SplitSentencesStart \/ SplitSentencesIteration \/ SplitSentencesReturn
SpecSplitSentences == SplitSentencesInit /\ [][SplitSentencesNext]_vars
\* the call runs on
FairSpecSplitSentences == SpecSplitSentences /\ WF_vars(SplitSentencesNext)

\* say_read.synth_retry on a text, with an engine that raises on long texts, on
\* every text (limit -1) or on none
MaxRetryTokens == 3
RetryVocabulary == <<<<"a","a","a","a","a","a","a","a","a","a","a","a","a","a","a","a","a","a","a","a","a">>, <<"b","b"," ","c","c"," ","d","d"," ","e","e"," ">>, <<"H","e","l","l","o"," ","t","h","e","r","e",","," ","m","y"," ","f","r","i","e","n","d","."," ">>, <<" ">>, <<"f","f","f","f","f","f","f","f","f","f"," ","g","g","g","g","g","g","g","g","g","g">>>>
DeepText == <<"x","x","x","x","x","x","x","x","x","x","x","x","x","x","x","x","x","x","x","x","x","x","x","x","x","x","x","x","x","x","x","x","x","x","x","x","x","x","x","x","x"," ","b"," ","b"," ","b"," ","b"," ","b"," ","b"," ","b"," ","b"," ","b">>
RetryInputs ==
  {Concat(ts) : ts \in UNION {[1..n -> {RetryVocabulary[k] : k \in 1..Len(RetryVocabulary)}] : n \in 0..MaxRetryTokens}}
    \cup {DeepText}
EngineLimits == {-1, 12, 30, 100}

SynthRetryInit ==
  /\ InitInstance("say_read", {[limit |-> m] : m \in EngineLimits}, RetryInputs)
  /\ pc = "retry_start"
  /\ lang = "none"
SynthRetryNext == SynthCall \/ SynthTry \/ SynthLoop
SpecSynthRetry == SynthRetryInit /\ [][SynthRetryNext]_vars
\* the call runs on
FairSpecSynthRetry == SpecSynthRetry /\ WF_vars(SynthRetryNext)

\* the reader control service, started for the first time, serves D-Bus calls
MaxChunkNumber == 3
GnomeInit ==
  /\ InitInstance("gnome", {[max_chunk |-> MaxChunkNumber]}, {<<>>})
  /\ pc = "serving"
  /\ lang = "none"
GnomeNext ==
  start_reading \/ pause_reading \/ resume_reading \/ stop_reading \/ update_progress \/ Restart
SpecGnome == GnomeInit /\ [][GnomeNext]_vars

\* SmartAudioStreamer.stream_buffered on an audio_generator of up to MaxAudioChunks
\* chunks: the generator thread and the playback loop run side by side
MaxAudioChunks == 12
BufferedInit ==
  /\ InitInstance("buffered", {[chunks |-> n] : n \in 0..MaxAudioChunks}, {<<>>})
  /\ pc = "streaming"
  /\ lang = "none"
BufferedNext ==
  GenerateChunk \/ GenerationEnds \/ PutSentinel \/ GetChunk \/ GetTimesOut \/ CheckFinished
SpecBuffered == BufferedInit /\ [][BufferedNext]_vars

\* SimpleParallelTTS(max_workers).process_chunks_parallel on a list of up to
\* MaxParallelChunks chunks; early_start_player.py uses max_workers 1 and 3
MaxParallelChunks == 3
MaxWorkers == 3
ParallelInit ==
  /\ InitInstance("parallel",
                  {[max_workers |-> m, chunks |-> n] : m \in 1..MaxWorkers,
                                                       n \in 0..MaxParallelChunks}, {<<>>})
  /\ pc = "processing"
  /\ lang = "none"
ParallelNext ==
  \/ StartWorkers \/ QueueChunk \/ SignalCompletion \/ CollectResult \/ CollectTimesOut
  \/ JoinAndSort \/ WorkerGet \/ WorkerGenerate
SpecParallel == ParallelInit /\ [][ParallelNext]_vars
\* every thread that can take a step is scheduled in the end
FairSpecParallel == SpecParallel /\ WF_vars(ParallelNext)

\* EarlyStartPlayer(initial_batch_size).start_early_playback on a list of up to
\* MaxPlayerChunks chunks
MaxPlayerChunks == 4
MaxBatchSize == 3
EarlyStartInit ==
  /\ InitInstance("early_start",
                  {[initial_batch_size |-> b, chunks |-> n] : b \in 1..MaxBatchSize,
                                                              n \in 0..MaxPlayerChunks}, {<<>>})
  /\ pc = "playing"
  /\ lang = "none"
\* the steps of the three threads
EarlyStartSteps ==
  \/ ProcessImmediate \/ StartPlayback \/ QueueImmediate \/ StartBackground \/ SignalEnd
  \/ BackgroundProcess \/ BackgroundQueue \/ BackgroundFinally
  \/ PlaybackGet \/ PlaybackLeaves
EarlyStartNext == EarlyStartSteps \/ stop
SpecEarlyStart == EarlyStartInit /\ [][EarlyStartNext]_vars
\* every thread that can take a step is scheduled in the end; nothing makes a
\* caller call stop
FairSpecEarlyStart == SpecEarlyStart /\ WF_vars(EarlyStartSteps)

---------------------------------------------------------------------------
(* Properties of GoldStandardChunker                                       *)

Done == pc = "done"

\* w occurs in s as a contiguous run of characters
IsInfix(w, s) == \E p \in 0..(Len(s) - Len(w)) : Lit(s, p, w, FALSE)

\* ' '.join(parts), whitespace-normalized
NormalizedJoin(parts) == Normalize(JoinWith(parts, <<" ">>))

\* C1. Lossless content: the sentences of split_into_sentences and the chunks of
\* gold_standard_chunk_text, joined with single spaces and whitespace-normalized,
\* equal the whitespace-normalized input.
C1_LosslessContent ==
  engine = "gold" /\ ~IsBlank(text) =>
    /\ pc = "loop" => NormalizedJoin(sentences) = Normalize(text)
    /\ Done => NormalizedJoin(result) = Normalize(text)

\* C2. No empty chunks: no element of the list returned by any of the four
\* chunkers is empty or whitespace-only.
C2_NoEmptyChunks ==
  Done => \A k \in 1..Len(result) : ~IsBlank(result[k])

\* a call in which a flush was skipped because the current chunk was empty:
\* a long sentence came first and its pieces were returned
C2_Witness ==
  /\ Done /\ engine = "gold"
  /\ \E k \in 1..Len(long_calls) : long_calls[k].first = 1 /\ long_calls[k].last >= 2
  /\ Len(result) >= 2

\* C3. gold_standard_chunk_text returns [] iff the input is empty or whitespace-only,
\* and a whitespace-only input never reaches the sentence loop.
C3_EmptyIffBlank ==
  engine = "gold" =>
    /\ Done => (result = <<>> <=> IsBlank(text))
    /\ IsBlank(text) => pc \in {"start", "done"} /\ sentences = <<>> /\ chunks = <<>>

\* a whitespace-only input of at least one character, answered with []
C3_Witness ==
  engine = "gold" /\ Done /\ text # <<>> /\ IsBlank(text) /\ result = <<>>

\* chunk k of the result is a piece of a sentence longer than max_size
FromLongSentence(k) ==
  \E j \in 1..Len(long_calls) :
    /\ Len(long_calls[j].sentence) > cfg.max_size
    /\ long_calls[j].first <= k /\ k <= long_calls[j].last

\* C4. Size bounds: every chunk other than the last one and other than the pieces of a
\* sentence longer than max_size has min_chunk_size <= len(chunk) <= max_size.
C4_SizeBounds ==
  engine = "gold" /\ Done =>
    \A k \in 1..(Len(result) - 1) :
      ~FromLongSentence(k) => cfg.min_size <= Len(result[k]) /\ Len(result[k]) <= cfg.max_size

\* an abbreviation of the language of the text, matched in "left right", that the
\* boundary between left and right cuts or directly follows
BoundaryAtProtectedSpan(left, right, language) ==
  LET joined == left \o <<" ">> \o right
  IN \E i \in 0..(NumAbbreviations(language) - 1) :
       LET ms == FindIter(<<"abbreviations", language, i>>, joined)
       IN \E k \in 1..Len(ms) : ms[k].start < Len(left) /\ Len(left) <= ms[k].end

\* C5. Abbreviation integrity: no boundary between two consecutive chunks falls
\* inside a protected span or immediately after one.
C5_AbbreviationIntegrity ==
  engine = "gold" /\ Done =>
    \A k \in 1..(Len(result) - 1) :
      ~BoundaryAtProtectedSpan(result[k], result[k + 1], detect_language(text))

\* the sentences chunk_long_sentence may be handed: longer than max_size, or, under
\* prefer_sentence_boundaries, at least target_size long
MayBeBroken(sentence) ==
  \/ Len(sentence) > cfg.max_size
  \/ cfg.prefer_sentence_boundaries /\ Len(sentence) >= cfg.target_size

\* C6, as claimed. chunk_long_sentence is invoked only for a sentence longer than
\* max_size, and every sentence of at most max_size is whole inside a returned chunk.
C6_SentenceIntegrity ==
  engine = "gold" =>
    /\ \A j \in 1..Len(long_calls) : Len(long_calls[j].sentence) > cfg.max_size
    /\ Done /\ ~IsBlank(text) =>
         \A i \in 1..Len(sentences) :
           Len(Strip(sentences[i])) <= cfg.max_size =>
             \E k \in 1..Len(result) : IsInfix(Strip(sentences[i]), result[k])

\* C6, amended. chunk_long_sentence is invoked only for a sentence longer than max_size
\* or, under prefer_sentence_boundaries, of at least target_size; every other sentence
\* is whole inside a returned chunk.
C6_BrokenOnlyWhenLarge ==
  engine = "gold" =>
    /\ \A j \in 1..Len(long_calls) : MayBeBroken(long_calls[j].sentence)
    /\ Done /\ ~IsBlank(text) =>
         \A i \in 1..Len(sentences) :
           ~MayBeBroken(Strip(sentences[i])) =>
             \E k \in 1..Len(result) : IsInfix(Strip(sentences[i]), result[k])

\* chunk_long_sentence was handed a sentence of at most max_size and cut it in two,
\* in a call that also kept a shorter sentence whole
C6_Witness ==
  /\ engine = "gold" /\ Done
  /\ \E j \in 1..Len(long_calls) :
       /\ Len(long_calls[j].sentence) <= cfg.max_size
       /\ long_calls[j].last > long_calls[j].first
  /\ \E i \in 1..Len(sentences) :
       Strip(sentences[i]) # <<>> /\ ~MayBeBroken(Strip(sentences[i]))

---------------------------------------------------------------------------
(* Properties of the assemblers of the other chunkers                      *)

\* C7. The final chunk is exempt from the lower size bound: for a non-blank input the
\* tts, natural and smart chunkers return at least one chunk, and the last chunk
\* assembled is the last chunk returned.
C7_FinalChunkKept ==
  engine \in {"tts", "natural", "smart"} /\ Done /\ ~IsBlank(text) =>
    /\ result # <<>>
    /\ chunks # <<>> => result[Len(result)] = chunks[Len(chunks)]

\* The reference assembler of C8.  Its state is the buffer and the chunks emitted so
\* far; a chunk is emitted in the form the chunker gives it.
RefFlush(e, buffer) == IF e = "tts" THEN _ensure_tts_termination(buffer) ELSE Strip(buffer)

RefFinal(e, buffer) ==
  IF e = "tts" \/ EndsWithAny(Strip(buffer), SentencePunct) THEN RefFlush(e, buffer)
  ELSE Strip(buffer) \o <<".">>

RefPieces(e, sentence, c) ==
  IF e = "tts" THEN Terminated(_split_long_sentence_tts_safe(sentence, c))
  ELSE _split_long_sentence_naturally(sentence, c)

RefStep(e, st, sentence, c) ==
  LET joined == IF st.buffer = <<>> THEN sentence ELSE st.buffer \o <<" ">> \o sentence
  IN IF Len(sentence) > c.max_size
     THEN [buffer |-> <<>>,
           emitted |-> (IF st.buffer # <<>> THEN Append(st.emitted, RefFlush(e, st.buffer))
                        ELSE st.emitted) \o RefPieces(e, sentence, c)]
     ELSE IF \/ Len(joined) <= c.target_size
             \/ Len(st.buffer) < c.min_size /\ Len(joined) <= c.max_size
     THEN [buffer |-> joined, emitted |-> st.emitted]
     ELSE [buffer |-> sentence, emitted |-> Append(st.emitted, RefFlush(e, st.buffer))]

\* the reference state after the first n sentences
RECURSIVE RefRun(_, _, _, _)
RefRun(e, sents, n, c) ==
  IF n = 0 THEN [buffer |-> <<>>, emitted |-> <<>>]
  ELSE RefStep(e, RefRun(e, sents, n - 1, c), sents[n], c)

\* the chunks of the reference assembler for a whole paragraph
RefChunks(e, sents, c) ==
  LET st == RefRun(e, sents, Len(sents), c)
  IN IF st.buffer # <<>> THEN Append(st.emitted, RefFinal(e, st.buffer)) ELSE st.emitted

SentencesOf(e, paragraph) ==
  IF e = "tts" THEN _split_sentences_tts_safe(paragraph) ELSE _split_sentences_advanced(paragraph)

\* the paragraph loop has finished the (only) paragraph of a non-blank text
ParagraphDone == pc \in {"para", "done"} /\ pidx = 2 /\ Len(paragraphs) = 1 /\ ~IsBlank(paragraphs[1])

Normalized(cs) == [k \in 1..Len(cs) |-> Normalize(cs[k])]

\* C8, as claimed. For every paragraph the chunks of _chunk_paragraph_for_tts and of
\* _chunk_paragraph_naturally are, up to whitespace, those of the reference assembler
\* run on the sentences of the paragraph.
C8_AssemblerIsReference ==
  engine \in {"tts", "natural"} /\ ParagraphDone =>
    Normalized(chunks)
      = Normalized(RefChunks(engine, SentencesOf(engine, Strip(paragraphs[1])), cfg))

\* C8, amended. For a paragraph longer than max_size the chunker follows the reference
\* assembler sentence by sentence and emits its chunks, and the buffer never exceeds
\* max_size; a paragraph of at most max_size is returned as one chunk.
C8_AssemblerOnLongParagraphs ==
  engine \in {"tts", "natural"} =>
    /\ pc = "loop" =>
         /\ chunks = RefRun(engine, sentences, idx - 1, cfg).emitted
         /\ current_chunk = RefRun(engine, sentences, idx - 1, cfg).buffer
         /\ Len(current_chunk) <= cfg.max_size
         /\ Len(Strip(paragraphs[1])) > cfg.max_size
    /\ ParagraphDone =>
         IF Len(Strip(paragraphs[1])) > cfg.max_size
         THEN chunks = RefChunks(engine, sentences, cfg)
         ELSE Len(chunks) = 1

\* the assembler has emitted a chunk that the min_size rule let grow past target_size
C8_Witness ==
  /\ engine \in {"tts", "natural"} /\ ParagraphDone
  /\ Len(Strip(paragraphs[1])) > cfg.max_size
  /\ Len(sentences) >= 3
  /\ \E n \in 1..(Len(sentences) - 1) :
       LET st == RefRun(engine, sentences, n, cfg)
       IN /\ st.buffer # <<>> /\ Len(st.buffer) < cfg.min_size
          /\ Len(st.buffer) + 1 + Len(sentences[n + 1]) > cfg.target_size
          /\ Len(st.buffer) + 1 + Len(sentences[n + 1]) <= cfg.max_size

---------------------------------------------------------------------------
(* Properties of TTSOptimizedChunker._split_long_sentence_tts_safe          *)

Distance(a, b) == IF a >= b THEN a - b ELSE b - a

\* both parts of the sentence cut at offset e, stripped, have at least min_size characters
ValidCut(sentence, e, c) ==
  /\ Len(Strip(Slice(sentence, 0, e))) >= c.min_size
  /\ Len(Strip(Slice(sentence, e, Len(sentence)))) >= c.min_size

\* some match of break pattern i yields a valid split
SomeMatchValid(sentence, i, c) ==
  LET ms == FindIter(<<"break_patterns", i>>, sentence)
  IN \E k \in 1..Len(ms) : ValidCut(sentence, ms[k].end, c)

\* the match of break pattern i that ends closest to the middle of the sentence (the
\* first of them when two are equally close) yields a valid split
ClosestMatchValid(sentence, i, c) ==
  LET ms == FindIter(<<"break_patterns", i>>, sentence)
      mid == Len(sentence) \div 2
  IN \E k \in 1..Len(ms) :
       /\ \A j \in 1..Len(ms) : Distance(ms[k].end, mid) <= Distance(ms[j].end, mid)
       /\ \A j \in 1..(k - 1) : Distance(ms[j].end, mid) > Distance(ms[k].end, mid)
       /\ ValidCut(sentence, ms[k].end, c)

\* the name of the first class of order that is valid, "words" when none is
FirstValidClass(order, valid) ==
  LET ok == {n \in 1..Len(order) : valid[order[n]]}
  IN IF ok = {} THEN "words" ELSE BreakTypeName(order[Min(ok)])

\* C9, as claimed. The break classes are tried in the order comma + conjunction,
\* semicolon, comma + relative word, plain comma, word boundary, and the first class
\* with at least one match that yields a valid split is used.
C9_ClaimedPriority ==
  [][engine = "tts" /\ pc = "split" =>
       break_type' = FirstValidClass(<<1, 0, 2, 3>>,
                                     [i \in 0..3 |-> SomeMatchValid(remaining, i, cfg)])]_vars

\* C9, amended. The break classes are tried in the order semicolon, comma +
\* conjunction, comma + "which", plain comma, word boundary, and the first class whose
\* match closest to the middle of the sentence yields a valid split is used.
C9_SemicolonFirst ==
  [][engine = "tts" /\ pc = "split" =>
       break_type' = FirstValidClass(<<0, 1, 2, 3>>,
                                     [i \in 0..3 |-> ClosestMatchValid(remaining, i, cfg)])]_vars

\* a sentence was split at a semicolon although a comma + conjunction split of it was valid
C9_Witness ==
  /\ engine = "tts"
  /\ \E k \in 1..Len(splits) :
       /\ splits[k].break_type = "semicolon"
       /\ ClosestMatchValid(splits[k].sentence, 1, cfg)

\* C10. Every accepted split has both parts of at least min_size; the call in progress
\* is on a sentence longer than max_size, which after an accepted split is the second
\* part of that split; every second part is shorter than the sentence it was cut from,
\* so the recursion ends.
C10_ValidSplitsAndRecursion ==
  engine = "tts" =>
    /\ \A k \in 1..Len(splits) :
         /\ Len(splits[k].first_part) >= cfg.min_size
         /\ Len(splits[k].second_part) >= cfg.min_size
         /\ Len(splits[k].second_part) < Len(splits[k].sentence)
    /\ pc = "split" =>
         /\ Len(remaining) > cfg.max_size
         /\ \/ remaining = sentences[idx]
            \/ splits # <<>> /\ remaining = splits[Len(splits)].second_part
    /\ Done => remaining = <<>>

\* a long sentence was split, the optimizer recursed on its second part and split it again
C10_Witness ==
  /\ engine = "tts" /\ Done
  /\ \E k \in 1..(Len(splits) - 1) :
       /\ splits[k + 1].sentence = splits[k].second_part
       /\ Len(splits[k].second_part) > cfg.max_size

---------------------------------------------------------------------------
(* Properties of GoldStandardChunker.chunk_long_sentence                   *)

\* the matches of comma + (and|but|or|so|yet) in the sentence
CommaConjunctionsOf(sentence) == FindIter(<<"comma_conjunction">>, sentence)

\* 10 times the distance of offset p from 60% of n
DistanceFrom60(p, n) == Distance(10 * p, 6 * n)

\* s begins with one of and|but|or|so|yet followed by whitespace
StartsWithConjunction(s) ==
  \E i \in 1..Len(CommaConjunctions) :
    Lit(s, 0, CommaConjunctions[i], TRUE) /\ CharIn(s, Len(CommaConjunctions[i]), Whitespace)

\* C11. Comma + conjunction selection: a sentence handed to chunk_long_sentence that
\* has matches of comma + (and|but|or|so|yet) comes back as exactly two non-empty
\* parts, cut just after the comma of the match whose start is closest to 60% of the
\* length of the sentence (the earliest one on ties), and the second part begins with
\* the conjunction.
C11_CommaConjunctionSplit ==
  engine = "gold" =>
    \A j \in 1..Len(long_calls) :
      LET sentence == long_calls[j].sentence
          ms == CommaConjunctionsOf(sentence)
          n == Len(sentence)
      IN ms # <<>> =>
           /\ long_calls[j].last = long_calls[j].first + 1
           /\ \E k \in 1..Len(ms) :
                /\ \A i \in 1..Len(ms) :
                     DistanceFrom60(ms[k].start, n) <= DistanceFrom60(ms[i].start, n)
                /\ \A i \in 1..(k - 1) :
                     DistanceFrom60(ms[i].start, n) > DistanceFrom60(ms[k].start, n)
                /\ sentence[ms[k].start + 1] = ","
                /\ chunks[long_calls[j].first] = Strip(Slice(sentence, 0, ms[k].start + 1))
                /\ chunks[long_calls[j].last] = Strip(Slice(sentence, ms[k].start + 1, n))
           /\ chunks[long_calls[j].first] # <<>>
           /\ StartsWithConjunction(chunks[long_calls[j].last])

\* a single sentence longer than max_size with two comma + conjunction matches, cut at
\* the second one, came back as two chunks of at least min_chunk_size
C11_Witness ==
  /\ engine = "gold" /\ Done
  /\ Len(long_calls) = 1 /\ Len(result) = 2
  /\ Len(long_calls[1].sentence) > cfg.max_size
  /\ Len(CommaConjunctionsOf(long_calls[1].sentence)) >= 2
  /\ result[1] = Strip(Slice(long_calls[1].sentence, 0,
                             CommaConjunctionsOf(long_calls[1].sentence)[2].start + 1))
  /\ Len(result[1]) >= cfg.min_size /\ Len(result[2]) >= cfg.min_size

\* the text has no whitespace and no punctuation: letters and digits only
IsUnbrokenWord(t) == \A i \in 1..Len(t) : t[i] \in UpperAZ \cup LowerAZ \cup Digit

\* C12. No break available: a sentence longer than max_size without punctuation and
\* without whitespace is returned by gold_standard_chunk_text unmodified, as one
\* oversized chunk.
C12_UnbrokenWordReturnedWhole ==
  engine = "gold" /\ Done /\ IsUnbrokenWord(text) /\ Len(text) > cfg.max_size =>
    result = <<text>>

---------------------------------------------------------------------------
(* Properties of GoldStandardChunker.split_into_sentences                  *)

\* the masked text and the protection map of the call on text t
Masked(t) == protect_abbreviations(t, detect_language(t))

\* the matches of punctuation break class k (0 parenthetical, 1 exclamation then
\* capital, 2 semicolon before transition word) in the masked text
BreakClassMatches(k, masked) == FindIter(<<"punctuation_breaks", k>>, masked.text)

\* the first break class that matches somewhere in the masked text, 3 when none does
TakeoverClass(masked) ==
  IF BreakClassMatches(0, masked) # <<>> THEN 0
  ELSE IF BreakClassMatches(1, masked) # <<>> THEN 1
  ELSE IF BreakClassMatches(2, masked) # <<>> THEN 2
  ELSE 3

\* the sentences obtained from the matches of break class k alone
SplitByClass(k, masked) ==
  PunctuationParts(ReSplit(<<"punctuation_breaks", k>>, masked.text), 0, <<>>, <<>>,
                   masked.map)

\* split_into_sentences has just returned the sentences of the text
Split == engine = "gold" /\ pc = "loop" /\ idx = 1

\* C13. Break-class takeover: the punctuation break classes are checked in the order
\* parenthetical, exclamation then capital, semicolon before transition word; the
\* sentences of the call are those that the first class matching the masked text
\* yields alone: for the first two classes there is at most one boundary per match
\* of the class and every sentence but the last ends with the closing parenthesis
\* or the exclamation mark of a match, whatever the other classes and the primary
\* sentence-ending rule match.
C13_BreakClassTakeover ==
  Split =>
    LET masked == Masked(text)
        k == TakeoverClass(masked)
    IN k < 3 =>
         /\ sentences = SplitByClass(k, masked)
         /\ k < 2 =>
              /\ Len(sentences) <= Len(BreakClassMatches(k, masked)) + 1
              /\ \A i \in 1..(Len(sentences) - 1) :
                   EndsWithAny(sentences[i], {IF k = 0 THEN ")" ELSE "!"})

\* the exclamation class took over a text in which the semicolon class and the
\* primary sentence-ending rule match as well, and gave two sentences
C13_Witness ==
  /\ Split /\ Len(sentences) = 2
  /\ LET masked == Masked(text)
         endings == FindIter(<<"sentence_endings", "english">>, masked.text)
     IN /\ TakeoverClass(masked) = 1
        /\ BreakClassMatches(2, masked) # <<>>
        /\ \E i \in 1..Len(endings) : endings[i].end < Len(masked.text)

\* offset p of text t lies in a span that protect_abbreviations masks
InProtectedSpan(t, p, language) ==
  \E i \in 0..(NumAbbreviations(language) - 1) :
    LET ms == FindIter(<<"abbreviations", language, i>>, t)
    IN \E k \in 1..Len(ms) : ms[k].start <= p /\ p < ms[k].end

\* the runs of . ! ? of t outside protected spans that are followed by whitespace and
\* then a capital letter, an inverted mark or the end of the text
PrimaryBoundaries(t, language) ==
  SelectSeq(FindIter(<<"sentence_endings", language>>, t),
            LAMBDA m : ~InProtectedSpan(t, m.start, language))

\* the sentences that end at the boundaries bs: each runs from the end of the
\* previous boundary to the end of its punctuation run
SentencesBetween(t, bs) ==
  SelectSeq([i \in 1..(Len(bs) + 1) |->
               Strip(Slice(t, IF i = 1 THEN 0 ELSE bs[i - 1].end,
                           IF i > Len(bs) THEN Len(t) ELSE bs[i].g[1]))],
            LAMBDA x : x # <<>>)

\* C14. Primary sentence rule: when none of the three punctuation break classes
\* matches, split_into_sentences puts a boundary at every run of . ! ? outside the
\* protected spans that is followed by whitespace and then a capital letter, an
\* inverted mark or the end of the text, and nowhere else, also when the next
\* sentence begins with a protected span.
C14_PrimaryRule ==
  Split =>
    LET language == detect_language(text)
    IN TakeoverClass(Masked(text)) = 3 =>
         sentences = SentencesBetween(text, PrimaryBoundaries(text, language))

\* the sentences that the matches ms of the semicolon + transition word class cut the
\* masked text into: each ends with the semicolon of a match and the next one starts
\* at the transition word of that match
SemicolonSentences(masked, ms) ==
  [i \in 1..(Len(ms) + 1) |->
     restore_abbreviations(
       Strip(Slice(masked.text, IF i = 1 THEN 0 ELSE ms[i - 1].g[2],
                   IF i > Len(ms) THEN Len(masked.text) ELSE ms[i].g[1])),
       masked.map)]

\* C15. Semicolon-before-transition split: a text with k >= 1 semicolons followed by
\* whitespace and a transition word, and no parenthetical or exclamation break, is
\* split into k + 1 sentences in source order; each of the first k ends with its
\* semicolon and each following one starts with the transition word and carries
\* the text up to the next such semicolon or the end of the text.
C15_SemicolonTransitionSplit ==
  Split =>
    LET masked == Masked(text)
    IN TakeoverClass(masked) = 2 =>
         sentences = SemicolonSentences(masked, BreakClassMatches(2, masked))

---------------------------------------------------------------------------
(* Properties of GoldStandardChunker.gold_standard_chunk_text              *)

\* "Great work! (Nice job.) However, fix the bug; specifically, the timeout."
ScenarioText == Concat(ScenarioVocabulary)

\* C16. Mixed-punctuation scenario: with the default thresholds the text "Great work!
\* (Nice job.) However, fix the bug; specifically, the timeout." is returned as the
\* four chunks "Great work!", "(Nice job.)", "However, fix the bug;" and
\* "specifically, the timeout.", in that order.
C16_MixedPunctuationScenario ==
  engine = "gold" /\ Done /\ cfg = DefaultGoldConfig /\ text = ScenarioText =>
    result = <<<<"G","r","e","a","t"," ","w","o","r","k","!">>, <<"(","N","i","c","e"," ","j","o","b",".",")">>, <<"H","o","w","e","v","e","r",","," ","f","i","x"," ","t","h","e"," ","b","u","g",";">>,
               <<"s","p","e","c","i","f","i","c","a","l","l","y",","," ","t","h","e"," ","t","i","m","e","o","u","t",".">>>>

\* sentence i of the call, as the sentence loop sees it
SentenceAt(i) == Strip(sentences[i])

\* the buffer is sentences j..(n - 1) joined by single spaces, all of them of at
\* most min_chunk_size characters
BufferIsShortRun(buffer, j, n) ==
  /\ buffer = JoinWith([i \in 1..(n - j) |-> SentenceAt(j + i - 1)], <<" ">>)
  /\ \A i \in j..(n - 1) : Len(SentenceAt(i)) <= cfg.min_size

\* C17. Short-sentence grouping: with prefer_sentence_boundaries a sentence of at most
\* min_chunk_size characters is merged into the running buffer when the merged text
\* stays within target_size and otherwise closes the buffer and starts the next one;
\* a sentence with min_chunk_size < len < target_size is emitted as a chunk of its
\* own; so the buffer always is a run of consecutive sentences of at most
\* min_chunk_size characters and never exceeds target_size.
C17_ShortSentenceGrouping ==
  [][engine = "gold" /\ cfg.prefer_sentence_boundaries /\ pc = "loop" /\ idx <= Len(sentences) =>
       LET s == SentenceAt(idx)
           merged == IF current_chunk = <<>> THEN s ELSE current_chunk \o <<" ">> \o s
       IN /\ Len(s) <= cfg.min_size =>
               IF Len(merged) <= cfg.target_size
               THEN current_chunk' = merged /\ chunks' = chunks
               ELSE current_chunk' = s /\ chunks' = Append(chunks, current_chunk)
          /\ Len(s) > cfg.min_size /\ Len(s) < cfg.target_size =>
               /\ current_chunk' = <<>>
               /\ chunks' = (IF current_chunk = <<>> THEN chunks ELSE Append(chunks, current_chunk))
                            \o <<s>>
          /\ Len(current_chunk') <= cfg.target_size
          /\ \E j \in 1..idx' : BufferIsShortRun(current_chunk', j, idx')]_vars

\* two or more sentences of at most min_chunk_size characters each came back as one
\* chunk, the trimmed text
C17_Witness ==
  /\ engine = "gold" /\ Done /\ cfg.prefer_sentence_boundaries
  /\ Len(sentences) >= 2
  /\ \A i \in 1..Len(sentences) : Len(SentenceAt(i)) <= cfg.min_size
  /\ result = <<Strip(text)>>

---------------------------------------------------------------------------
(* C18: protect / restore round trip                                        *)

\* t contains something shaped like a placeholder token
HasPlaceholderShape(t) == IsInfix(<<"_","_","A","B","B","R","E","V","_">>, t)

\* C18: restoring the output of protect_abbreviations returns the original text
\* exactly, also when the text contains a sequence shaped like a placeholder;
\* the placeholders of one pass are pairwise distinct, and no later pattern
\* matched a placeholder (no protected original holds a placeholder issued
\* earlier in the pass).
C18_ProtectRestoreRoundTrip ==
  (engine = "gold" /\ pc = "restored") =>
    /\ restored = text
    /\ \A a, b \in 1..Len(protection) :
         a # b => protection[a].placeholder # protection[b].placeholder
    /\ \A a, b \in 1..Len(protection) :
         a < b => ~IsInfix(protection[a].placeholder, protection[b].original)

\* the same round trip on the texts that hold no placeholder-shaped sequence
C18_RoundTripOnPlainText ==
  (engine = "gold" /\ pc = "restored" /\ ~HasPlaceholderShape(text)) =>
    /\ restored = text
    /\ \A a, b \in 1..Len(protection) :
         a # b => protection[a].placeholder # protection[b].placeholder

---------------------------------------------------------------------------
(* C19: construction with invalid thresholds                                *)

\* min_size < target_size <= max_size, all positive
ValidThresholds(c) ==
  /\ c.min_size > 0 /\ c.target_size > 0 /\ c.max_size > 0
  /\ c.min_size < c.target_size
  /\ c.target_size <= c.max_size

\* C19: a constructor given thresholds that break min_size < target_size <= max_size,
\* or that are not positive, fails; so every chunker that exists, and every chunker
\* a chunking call runs on, has valid thresholds.
C19_InvalidConfigurationRejected ==
  pc # "new" => ValidThresholds(cfg)

---------------------------------------------------------------------------
(* C20: statelessness of GoldStandardChunker                                *)

---------------------------------------------------------------------------
(* C25: the pieces of chunk_long_sentence against max_size                  *)

\* C25: every piece returned by chunk_long_sentence is at most max_size long,
\* on the comma + conjunction path and on the fallback loop alike.
C25_LongSentencePiecesBounded ==
  engine = "gold" =>
    \A c \in 1..Len(long_calls) :
       \A piece \in {chunk_long_sentence(long_calls[c].sentence, cfg)[k] :
                       k \in 1..Len(chunk_long_sentence(long_calls[c].sentence, cfg))} :
          Len(piece) <= cfg.max_size

---------------------------------------------------------------------------
(* C26: the fallback loop of chunk_long_sentence                            *)

\* the characters of s that are not whitespace, in order
NonWhitespace(s) == SelectSeq(s, LAMBDA ch : ch \notin Whitespace)

\* the break point an iteration of the fallback loop uses on rem
LoopBreakPoint(rem, max_size) == BreakPointOrMax(find_optimal_break_point(rem, max_size), max_size)

\* the call went into the fallback loop
InFallback == engine = "gold" /\ pc \in {"long_loop", "long_done"} /\ ConjunctionSplit(text, cfg) = <<>>
                 /\ Len(text) > cfg.max_size

\* C26: the fallback loop ends for every sentence and every max_size >= 1: each
\* iteration breaks at a position of at least 1 and leaves a strictly shorter
\* remaining text, the call returns, and the pieces hold the non-whitespace
\* characters of the sentence in their order.
C26_FallbackLoopTerminates ==
  /\ [][(pc = "long_loop" /\ pc' = "long_loop") =>
          /\ LoopBreakPoint(remaining, cfg.max_size) >= 1
          /\ Len(remaining') < Len(remaining)
          /\ Len(chunks') >= Len(chunks)
          /\ \A k \in 1..Len(chunks) : chunks'[k] = chunks[k]]_vars
  /\ [](pc = "long_loop" => LoopBreakPoint(remaining, cfg.max_size) >= 1)
  /\ <>(pc = "long_done")
  /\ [](InFallback /\ pc = "long_done" =>
          /\ NonWhitespace(Concat(result)) = NonWhitespace(text)
          /\ \A k \in 1..Len(result) : result[k] # <<>>)

\* a sentence that starts with a blank went through three iterations or more
C26_Witness ==
  /\ InFallback /\ pc = "long_done"
  /\ text[1] = " "
  /\ Len(result) >= 4

---------------------------------------------------------------------------
(* C30: the termination of the chunks of TTSOptimizedChunker                *)

\* chunk ends with a period, an exclamation mark or a question mark
Terminates(chunk) == Len(chunk) > 0 /\ chunk[Len(chunk)] \in {".", "!", "?"}

\* C30: every chunk tts_chunk_text returns ends with . ! or ?; so does every chunk
\* the paragraph loop has emitted so far, and _ensure_tts_termination adds a period
\* to the stripped buffer exactly when the buffer does not end with one of them.
C30_TtsTermination ==
  engine = "tts" =>
    /\ pc = "done" => \A k \in 1..Len(result) : Terminates(result[k])
    /\ \A k \in 1..Len(chunks) : Terminates(chunks[k])
    /\ Strip(current_chunk) # <<>> =>
         _ensure_tts_termination(current_chunk) =
           IF Terminates(Strip(current_chunk)) THEN Strip(current_chunk)
           ELSE Strip(current_chunk) \o <<".">>

\* a returned chunk got its period from _ensure_tts_termination: the text holds no
\* period at all
C30_Witness ==
  /\ engine = "tts" /\ pc = "done"
  /\ Len(result) >= 2
  /\ \A i \in 1..Len(text) : text[i] # "."
  /\ \E k \in 1..Len(result) : result[k][Len(result[k])] = "."

---------------------------------------------------------------------------
(* C27: say_read.split_sentences                                            *)

\* C27: split_sentences(text, maxlen) with maxlen >= 1 returns; every iteration
\* moves the cursor forward by one character or more; every piece is non-empty and
\* at most maxlen long; and the pieces hold, in order, the characters of the text
\* that are not whitespace.
C27_SplitSentencesPartition ==
  /\ [][(engine = "say_read" /\ pc = "split_loop" /\ pc' = "split_loop") =>
          /\ cursor' >= cursor + 1
          /\ cursor' <= Len(text)]_vars
  /\ <>(pc = "split_done")
  /\ [](engine = "say_read" /\ pc \in {"split_loop", "split_done"} =>
          /\ \A k \in 1..Len(chunks) : chunks[k] # <<>> /\ Len(chunks[k]) <= cfg.maxlen
          /\ NonWhitespace(Concat(chunks)) = NonWhitespace(Slice(text, 0, cursor)))
  /\ [](engine = "say_read" /\ pc = "split_done" =>
          /\ result = split_sentences(text, cfg.maxlen)
          /\ NonWhitespace(Concat(result)) = NonWhitespace(text))

\* a text cut at a separator and at the limit: three pieces or more, one of them
\* shorter than maxlen and one of them maxlen long
C27_Witness ==
  /\ engine = "say_read" /\ pc = "split_done"
  /\ Len(result) >= 3
  /\ \E k \in 1..Len(result) : Len(result[k]) = cfg.maxlen
  /\ \E k \in 1..(Len(result) - 1) : Len(result[k]) < cfg.maxlen
  /\ \E p \in 1..Len(text) : text[p] = " "

---------------------------------------------------------------------------
(* C24: say_read.synth_retry                                                *)

\* the call frames[k] was made by the loop of the call frames[k - 1]
Caller(k) == frames[k - 1]

\* C24: synth_retry returns for every text, also when the engine raises on every
\* call, and what it returns is an audio buffer with a sample rate (short silences
\* only when no synthesis succeeded).  Every recursive call has the depth of its
\* caller plus one and works on one of the caller's parts; below depth 8 a text of
\* more than 40 characters is split by split_sentences or by _force_split; from
\* depth 8 on, or on a text of 40 characters or fewer, a call recurses only when the
\* text has more than 20 characters and passes on a strictly shorter text.
C24_SynthRetryNeverStalls ==
  /\ [](engine = "say_read" /\ pc = "retry" =>
          \A k \in 2..Len(frames) :
             /\ frames[k].depth = Caller(k).depth + 1
             /\ \E p \in 1..Len(Caller(k).parts) : frames[k].text = Caller(k).parts[p]
             /\ Raises(Caller(k).text)
             /\ IF Caller(k).depth < 8 /\ Len(Caller(k).text) > 40
                THEN Caller(k).parts \in
                       {split_sentences(Caller(k).text, Max({60, Len(Caller(k).text) \div 2})),
                        _force_split(Caller(k).text)}
                ELSE /\ Len(Caller(k).text) > 20
                     /\ Caller(k).parts = _force_split(Caller(k).text)
                     /\ Len(frames[k].text) < Len(Caller(k).text))
  /\ <>(pc = "retry_done")
  /\ [](engine = "say_read" /\ pc = "retry_done" =>
          /\ Len(result.audio) >= 1
          /\ result.sr = 24000
          /\ cfg.limit = -1 => \A k \in 1..Len(result.audio) : result.audio[k] = "silence")

\* the engine raises on every call, and a call at depth 8 still works on more than
\* 40 characters and has made a call of its own
C24_Witness ==
  /\ engine = "say_read" /\ pc = "retry"
  /\ cfg.limit = -1
  /\ Len(frames) >= 10
  /\ frames[9].depth = 8
  /\ Len(frames[9].text) > 40

---------------------------------------------------------------------------
(* C28, C29: GnomeReaderControl                                             *)

\* C28: whenever the service has a session, is_paused is true exactly when the
\* status of the session is 'paused', also after a restart that restored the
\* session from the state file.
C28_PauseFlagAgreesWithStatus ==
  (engine = "gnome" /\ current_session # NoSession) =>
     (is_paused <=> current_session.status = "paused")

\* C29: pause_reading returns True only when a session exists and is_paused is
\* false, resume_reading returns True only when a session exists and is_paused is
\* true; with no session pause_reading, resume_reading, update_progress and
\* stop_reading return False and leave the session, the flag and the state file as
\* they were; stop_reading on a session leaves no session, is_paused false and no
\* state file.
C29_ReaderGuards ==
  [][engine = "gnome" =>
       /\ (last_call' = "pause_reading" /\ returned' = TRUE) =>
             (current_session # NoSession /\ ~is_paused /\ is_paused')
       /\ (last_call' = "resume_reading" /\ returned' = TRUE) =>
             (current_session # NoSession /\ is_paused /\ ~is_paused')
       /\ (current_session = NoSession
             /\ last_call' \in {"pause_reading", "resume_reading", "update_progress", "stop_reading"}) =>
             /\ returned' = FALSE
             /\ UNCHANGED <<current_session, is_paused, state_file>>
       /\ (current_session # NoSession /\ last_call' = "stop_reading") =>
             /\ returned' = TRUE
             /\ current_session' = NoSession
             /\ is_paused' = FALSE
             /\ state_file' = NoSession]_vars

\* pause_reading was refused on a paused session and the session is still there
C29_Witness ==
  /\ engine = "gnome"
  /\ last_call = "pause_reading" /\ returned = FALSE
  /\ current_session # NoSession /\ is_paused
  /\ state_file = current_session

---------------------------------------------------------------------------
(* C21: AudioBuffer                                                         *)

\* C21: under every interleaving of the generator thread and the playback loop,
\* get_chunks yields chunks in the order add_chunk accepted them, each once, and
\* when get_chunks ends it has yielded every chunk add_chunk accepted.
C21_BufferDeliversEverything ==
  engine = "buffered" =>
    /\ Len(yielded) <= Len(accepted)
    /\ \A k \in 1..Len(yielded) : yielded[k] = accepted[k]
    /\ playback_pc = "ended" => yielded = accepted

\* the order and the single delivery alone
C21_FifoPrefix ==
  engine = "buffered" =>
    /\ Len(yielded) <= Len(accepted)
    /\ \A k \in 1..Len(yielded) : yielded[k] = accepted[k]

---------------------------------------------------------------------------
(* C22: SimpleParallelTTS.process_chunks_parallel                           *)

\* the indices the workers took, in the order of the takes
TakenIndices == [k \in 1..Len(taken) |-> taken[k][2]]

\* no index twice in a sequence of indices
Distinct(s) == \A i, j \in 1..Len(s) : i # j => s[i] # s[j]

\* every step of the call and of the workers is over
ParallelDone ==
  /\ main_pc = "returned"
  /\ \A w \in 1..Len(worker) : worker[w].pc = "finished"

---------------------------------------------------------------------------
(* C23: EarlyStartPlayer                                                    *)

\* the audio files of a sequence of queue items, the end signals left out
RECURSIVE Files(_)
Files(s) ==
  IF Len(s) = 0 THEN <<>>
  ELSE (IF Head(s) = EndSignal THEN <<>> ELSE <<Head(s)>>) \o Files(Tail(s))

\* the end signal is in the sequence
Signalled23(s) == \E k \in 1..Len(s) : s[k] = EndSignal

\* C23: the audio files are enqueued, and played, in ascending original chunk
\* order, the immediate batch before the background batch; the end signal is
\* enqueued exactly once and after the last audio file, also when background
\* processing raises; and when stop is not called the playback loop ends in
\* the end, after it consumed the end signal.
C23_EarlyStartOrderAndShutdown ==
  /\ [](engine = "early_start" =>
          /\ \A k \in 1..(Len(enqueued) - 1) :
               /\ enqueued[k] # EndSignal
               /\ enqueued[k + 1] # EndSignal => enqueued[k] < enqueued[k + 1]
          /\ \A j, k \in 1..Len(enqueued) :
               (j < k /\ enqueued[k] # EndSignal /\ enqueued[k] < ImmediateCount)
                 => enqueued[j] < ImmediateCount
          /\ background_pc = "none" =>
               \A k \in 1..Len(enqueued) : enqueued[k] < ImmediateCount
          /\ ~stopped =>
               /\ Len(played) <= Len(Files(enqueued))
               /\ \A k \in 1..Len(played) : played[k] = Files(enqueued)[k]
               /\ loop_pc = "finished" =>
                    /\ Signalled23(enqueued)
                    /\ play_queue = <<>>
                    /\ played = Files(enqueued))
  /\ <>(engine = "early_start" => Signalled23(enqueued))
  /\ ([](engine = "early_start" => ~stopped))
       => <>(engine = "early_start" => loop_pc = "finished")

\* the immediate batch and the background batch were both played, one chunk of
\* each having failed, and the loop ended on the end signal without stop
C23_Witness ==
  /\ engine = "early_start" /\ ~stopped
  /\ cfg.initial_batch_size = 2 /\ cfg.chunks = 4
  /\ loop_pc = "finished" /\ background_pc = "done"
  /\ played = <<1, 3>>
  /\ enqueued = <<1, 3, EndSignal>>

\* background processing raised, and the loop still ended on the end signal
C23_WitnessRaised ==
  /\ engine = "early_start" /\ ~stopped
  /\ cfg.chunks > ImmediateCount
  /\ loop_pc = "finished" /\ background_pc = "done"
  /\ enqueued = <<0, EndSignal>>

=============================================================================
